---- MODULE Spec2Model ----
(***************************************************************************)
(* A state-machine model of PXEnhancedEnemyAI.js (Enhanced Enemy AI        *)
(* v4.1.1): plugin parameters and difficulty profiles, the decision        *)
(* engine's selection logic, the selectAllActions override, and the        *)
(* encounter life cycle of the per-agent Memory.                           *)
(*                                                                         *)
(* Conventions.  Fractions are held in hundredths (0.15 is 15, 1.0 is 100),*)
(* except difficultyMode and the counting options, which are plain         *)
(* integers.  A JavaScript value that may be undefined is a record whose   *)
(* field t tells the kind: [t |-> "undef"], [t |-> "text"] (a string that  *)
(* Number() turns into NaN) or [t |-> "num", v |-> n].                     *)
(***************************************************************************)
EXTENDS Integers, Sequences, FiniteSets, TLC

VARIABLES
    parameters,       \* PluginManager.parameters(pluginName): option -> raw value
    aiDifficultyMode, \* $gameSystem._aiDifficultyMode
    aiDebugMode,      \* $gameSystem._aiDebugMode
    params,           \* the object returned by the last getPluginParams() call
    requestedMode,    \* the mode asked for by the last changeDifficulty
                      \* command whose argument was one of the modes 0..2
    battlefield,      \* the host's battle data the engine reads ($dataSkills
                      \* is fixed below; this is what changes during a battle)
    actionQueue,      \* enemy index -> Game_Battler._actions
    teamDecisions,    \* $gameTemp._enemyTeamDecisions (the Ledger)
    enemyAIMemory,    \* $gameTemp._enemyAIMemory (the per-agent Memory)
    globalAIMemory,   \* window.$globalAIMemory (the cross-encounter pool)
    call,             \* what the last selectAllActions call did
    traitList,        \* battler.traits() and the other sources, concatenated
    analysis,         \* the Capability Profile the last analyzeBattler returned
    formula,          \* a skill's damage.formula as the database holds it
    evaluated,        \* what the last SafeFormulaEvaluator.evaluate call did
    caches,           \* the three analysis caches of the engine last built
    analyzed,         \* what the StateAnalyzer was last given and returned
    scoring,          \* the position of the makeDecision call under way, when
                      \* the call is followed statement by statement
    tracked           \* history: enemy index -> the Strategic Adaptation State
                      \* one instance would hold had it been given every
                      \* trackCombatPattern call made for the enemy since setup

traitVars == <<traitList, analysis>>
formulaVars == <<formula, evaluated>>
optionVars ==
    <<parameters, aiDifficultyMode, aiDebugMode, params, requestedMode>>
cfgVars == <<optionVars, traitVars, formulaVars, caches, analyzed, scoring>>
battleVars ==
    <<battlefield, actionQueue, teamDecisions, enemyAIMemory, globalAIMemory,
      call, tracked>>
vars == <<cfgVars, battleVars>>

Undef == [t |-> "undef"]
Text == [t |-> "text"]
Num(n) == [t |-> "num", v |-> n]

---------------------------------------------------------------------------
(* Plugin parameters, src lines 244-272.                                   *)

\* The numeric options read by getPluginParams with  Number(raw) || default.
NumericOptions ==
    {"difficultyMode", "adaptiveSpeed", "survivalWeight", "damageWeight",
     "supportWeight", "tacticalWeight", "statusEffectBonus",
     "healingThreshold", "learningRate", "elementalBonus", "comboWindow",
     "antiExploitThreshold", "statePreservationBonus",
     "minStateValueThreshold", "statePreservationWeight", "mistakeChance"}

\* The default written after || in getPluginParams (equal to the @default
\* of the option's help block).
DefaultOf(opt) ==
    CASE opt = "difficultyMode" -> 1
      [] opt = "adaptiveSpeed" -> 2
      [] opt = "survivalWeight" -> 35
      [] opt = "damageWeight" -> 30
      [] opt = "supportWeight" -> 20
      [] opt = "tacticalWeight" -> 15
      [] opt = "statusEffectBonus" -> 20
      [] opt = "healingThreshold" -> 50
      [] opt = "learningRate" -> 50
      [] opt = "elementalBonus" -> 150
      [] opt = "comboWindow" -> 2
      [] opt = "antiExploitThreshold" -> 3
      [] opt = "statePreservationBonus" -> 30
      [] opt = "minStateValueThreshold" -> 2
      [] opt = "statePreservationWeight" -> 150
      [] opt = "mistakeChance" -> 15

\* The options whose help block documents a valid range, and that range.
RangedOptions ==
    {"difficultyMode", "adaptiveSpeed", "survivalWeight", "damageWeight",
     "supportWeight", "tacticalWeight", "healingThreshold", "learningRate",
     "statePreservationWeight", "mistakeChance"}

DocumentedRange(opt) ==
    CASE opt = "difficultyMode" -> 0..2
      [] opt = "adaptiveSpeed" -> 1..10
      [] opt = "statePreservationWeight" -> 0..200
      [] OTHER -> 0..100

\* JavaScript Number(x) on a raw parameter: undefined and non-numeric text
\* give NaN, a numeric string gives its value.
JsNumber(raw) == IF raw.t = "num" THEN raw ELSE [t |-> "NaN"]

\* JavaScript  x || d  on a number: NaN and 0 are falsy.
JsOr(x, d) == IF x.t = "NaN" \/ x.v = 0 THEN d ELSE x.v

\* The strings 'true' and 'false' of a boolean option.
BoolText(b) == [t |-> "bool", v |-> b]

\* parameters[name] === 'true'
IsTrueString(raw) == raw = BoolText(TRUE)

BooleanOptions == {"persistentMemory", "debugMode"}

\* getPluginParams(): the runtime overrides in $gameSystem win when defined.
getPluginParams ==
    [opt \in NumericOptions \cup BooleanOptions |->
        CASE opt = "difficultyMode" ->
                IF aiDifficultyMode # Undef THEN aiDifficultyMode.v
                ELSE JsOr(JsNumber(parameters[opt]), 1)
          [] opt = "debugMode" ->
                IF aiDebugMode # Undef THEN aiDebugMode.v
                ELSE IsTrueString(parameters[opt])
          [] opt = "persistentMemory" -> IsTrueString(parameters[opt])
          [] OTHER -> JsOr(JsNumber(parameters[opt]), DefaultOf(opt))]

---------------------------------------------------------------------------
(* Difficulty profiles, src lines 290-334.                                 *)

\* multiplier of Adaptive Mode is a function evaluated at scoring time.
AdaptiveMultiplier == [t |-> "fn"]

behaviors ==
    [m \in 0..2 |->
        CASE m = 0 ->
                [multiplier |-> Num(60), mistakeChance |-> getPluginParams.mistakeChance,
                 learningRate |-> 10, perfectPrediction |-> FALSE,
                 sharedKnowledge |-> FALSE, persistentMemory |-> FALSE]
          [] m = 1 ->
                [multiplier |-> AdaptiveMultiplier, mistakeChance |-> 5,
                 learningRate |-> 30, perfectPrediction |-> FALSE,
                 sharedKnowledge |-> FALSE,
                 persistentMemory |-> getPluginParams.persistentMemory]
          [] m = 2 ->
                [multiplier |-> Num(150), mistakeChance |-> 0,
                 learningRate |-> 50, perfectPrediction |-> TRUE,
                 sharedKnowledge |-> TRUE, persistentMemory |-> TRUE]]

\* behaviors[mode] || behaviors[1]
getDifficultyBehavior(mode) ==
    IF mode \in DOMAIN behaviors THEN behaviors[mode] ELSE behaviors[1]

---------------------------------------------------------------------------
(* Plugin commands, src lines 4042-4048 and 4083-4086.                     *)

\* The arguments a changeDifficulty command is run with.
CommandArgs == {Undef, Text, Num(-1), Num(0), Num(1), Num(2), Num(3)}

changeDifficulty(arg) ==
    /\ aiDifficultyMode' =
            IF JsNumber(arg).t = "num" /\ arg.v >= 0 /\ arg.v <= 2
            THEN Num(arg.v) ELSE aiDifficultyMode
    /\ requestedMode' = IF arg \in {Num(0), Num(1), Num(2)} THEN arg ELSE requestedMode
    /\ UNCHANGED <<parameters, aiDebugMode, params, traitVars, formulaVars,
                   caches, analyzed, scoring,
                   battleVars>>

\* !undefined is true
toggleDebugMode ==
    /\ aiDebugMode' =
            IF aiDebugMode = Undef THEN BoolText(TRUE)
            ELSE BoolText(~aiDebugMode.v)
    /\ UNCHANGED <<parameters, aiDifficultyMode, params, requestedMode,
                   traitVars, formulaVars, caches, analyzed, scoring,
                   battleVars>>

\* A caller reads the options.
ReadPluginParams ==
    /\ params' = getPluginParams
    /\ UNCHANGED <<parameters, aiDifficultyMode, aiDebugMode, requestedMode,
                   traitVars, formulaVars, caches, analyzed, scoring,
                   battleVars>>

---------------------------------------------------------------------------
(* TraitAnalyzer, src lines 377-672.  A trait is a record of code, dataId  *)
(* and value; the codes modelled are 11 (element rate, multiplied), 21     *)
(* (base param, multiplied) and 22 (ex-param, added).  Values are whole    *)
(* numbers here (0 is an immunity, 2 a doubling).                          *)

\* The traits a battler's sources carry at most.
MaxTraits == 2

TraitCodes == {11, 21, 22}
TraitSubjects == {0, 1}
TraitValues == {0, 2, 3}
TraitRecords == [code : TraitCodes, dataId : TraitSubjects, value : TraitValues]

\* getDefaultAnalysis(): no rate, no param recorded.
getDefaultAnalysis ==
    [elementRates |-> [d \in TraitSubjects |-> Undef],
     params |-> [d \in TraitSubjects |-> Undef],
     exParams |-> [d \in TraitSubjects |-> Undef]]

\* !x of a field: missing and 0 are falsy.
Falsy(x) == x = Undef \/ x.v = 0

\* if (!field) field = 1.0; field *= value    (codes 11, 21)
MultiplyInto(field, value) == Num((IF Falsy(field) THEN 1 ELSE field.v) * value)

\* if (!field) field = 0; field += value      (code 22)
AddInto(field, value) == Num((IF Falsy(field) THEN 0 ELSE field.v) + value)

processTrait(trait, a) ==
    CASE trait.code = 11 ->
            [a EXCEPT !.elementRates[trait.dataId] = MultiplyInto(@, trait.value)]
      [] trait.code = 21 ->
            [a EXCEPT !.params[trait.dataId] = MultiplyInto(@, trait.value)]
      [] trait.code = 22 ->
            [a EXCEPT !.exParams[trait.dataId] = AddInto(@, trait.value)]
      [] OTHER -> a

\* calculateFinalParams: the defaults of params and ex-params.
calculateFinalParams(a) ==
    [a EXCEPT !.params = [d \in TraitSubjects |->
                             IF Falsy(a.params[d]) THEN Num(1) ELSE a.params[d]],
              !.exParams = [d \in TraitSubjects |->
                             IF Falsy(a.exParams[d]) THEN Num(0)
                             ELSE a.exParams[d]]]

RECURSIVE ProcessAll(_, _)
ProcessAll(traits, a) ==
    IF traits = <<>> THEN a
    ELSE ProcessAll(Tail(traits), processTrait(Head(traits), a))

\* TraitAnalyzer.analyzeBattler of a battler with the given traits.
analyzeBattler(traits) == calculateFinalParams(ProcessAll(traits, getDefaultAnalysis))

\* A caller asks for the battler's profile.
AnalyzeBattler ==
    /\ analysis' = analyzeBattler(traitList)
    /\ UNCHANGED <<parameters, aiDifficultyMode, aiDebugMode, params,
                   requestedMode, traitList, formulaVars, caches, analyzed, scoring,
                   battleVars>>

\* A state or a piece of equipment adds a trait to the battler.
HostAddsTrait(trait) ==
    /\ Len(traitList) < MaxTraits
    /\ traitList' = Append(traitList, trait)
    /\ analysis' = Undef
    /\ UNCHANGED <<parameters, aiDifficultyMode, aiDebugMode, params,
                   requestedMode, formulaVars, caches, analyzed, scoring,
                   battleVars>>

---------------------------------------------------------------------------
(* SafeFormulaEvaluator, src lines 337-375.  A formula's text is held as    *)
(* the sequence of its tokens: a reference a.atk, b.def or v[1], a literal, *)
(* an identifier nothing defines, or a binary operator.  The expressions    *)
(* that parse are one operand, or two operands around an operator; every    *)
(* other text of up to four of these tokens is a SyntaxError.  The values   *)
(* here are plain numbers, not hundredths.                                  *)

\* The tokens a formula's text holds at most.
MaxTokens == 3

\* return 100, at the early return, for NaN and in the catch block.
FallbackDamage == 100

JsString(s) == [t |-> "string", v |-> s]
JsBoolean(b) == [t |-> "boolean", v |-> b]
JsNull == [t |-> "null"]
JsSymbol == [t |-> "symbol"]
NaN == [t |-> "nan"]
\* The outcome of a step that raised an exception.
Thrown == [t |-> "thrown"]

Ref(obj, prop) == [k |-> "ref", obj |-> obj, prop |-> prop]
Lit(value) == [k |-> "lit", value |-> value]
Op(o) == [k |-> "op", op |-> o]
Ident(name) == [k |-> "ident", name |-> name]

FormulaTokens ==
    {Ref("a", "atk"), Ref("b", "def"), Ref("v", "1"),
     Lit(Num(2)), Lit(JsBoolean(TRUE)), Lit(JsNull), Lit(JsString("5")),
     Lit(JsString("abc")), Lit(JsSymbol), Ident("x"),
     Op("*"), Op("%"), Op(">")}

\* The battlers handed over as a and b: none, or an object with the stats.
FormulaBattlers == {Undef} \cup {[atk |-> Num(n), def |-> Num(3)] : n \in {0, 4}}

\* $gameVariables._data, read when no variable table is handed over; a
\* variable's id is held as the digits the formula spells it with.
gameVariablesData == [i \in {"1"} |-> Num(3)]

\* The variable tables handed over as v: none, or one whose variable is 0.
FormulaVariables == {Undef, [i \in {"1"} |-> Num(0)]}

\* context = {a: a || {}, b: b || {}, v: v || $gameVariables._data || {}}
context(a, b, v) ==
    [a |-> a, b |-> b, v |-> IF v = Undef THEN gameVariablesData ELSE v]

\* context.a[prop]: undefined on the empty object and for an unknown name.
Property(object, prop) ==
    IF object = Undef \/ prop \notin DOMAIN object THEN Undef ELSE object[prop]

\* The replace callbacks: the reference becomes the text of value || 0.
Substitute(token, ctx) ==
    IF token.k = "ref"
    THEN LET value == Property(ctx[token.obj], token.prop)
         IN  Lit(IF Falsy(value) THEN Num(0) ELSE value)
    ELSE token

\* Number(s) of the string literals above.
StringToNumber(s) == IF s = "5" THEN Num(5) ELSE NaN

\* The order of the string literals above under <.
StringRank(s) == IF s = "5" THEN 1 ELSE 2

\* ToNumber, as *, %, > and isNaN apply it; of a Symbol it throws.
ToNumber(x) ==
    CASE x.t = "num" -> x
      [] x.t = "boolean" -> Num(IF x.v THEN 1 ELSE 0)
      [] x.t = "null" -> Num(0)
      [] x.t = "string" -> StringToNumber(x.v)
      [] x.t = "symbol" -> Thrown
      [] OTHER -> NaN

\* left op right of two values.
Binary(left, o, right) ==
    LET l == ToNumber(left)
        r == ToNumber(right)
    IN  IF o = ">" /\ left.t = "string" /\ right.t = "string"
        THEN JsBoolean(StringRank(left.v) > StringRank(right.v))
        ELSE IF l = Thrown \/ r = Thrown THEN Thrown
        ELSE IF o = ">"
        THEN JsBoolean(l # NaN /\ r # NaN /\ l.v > r.v)
        ELSE IF l = NaN \/ r = NaN THEN NaN
        ELSE IF o = "*" THEN Num(l.v * r.v)
        ELSE IF r.v = 0 THEN NaN
        ELSE Num(l.v % r.v)

\* new Function('Math', `return ${safeFormula}`)(Math)
Run(tokens) ==
    CASE Len(tokens) = 1 /\ tokens[1].k = "lit" -> tokens[1].value
      [] /\ Len(tokens) = 3
         /\ tokens[1].k = "lit" /\ tokens[2].k = "op" /\ tokens[3].k = "lit"
         -> Binary(tokens[1].value, tokens[2].op, tokens[3].value)
      [] OTHER -> Thrown

\* isNaN(result); Thrown where the conversion throws.
isNaN(result) ==
    IF ToNumber(result) = Thrown THEN Thrown
    ELSE JsBoolean(ToNumber(result) = NaN)

\* return isNaN(result) ? 100 : result, every exception leading to the catch
\* block's return 100.
\* SafeFormulaEvaluator.evaluate(formula, a, b, v)
evaluate(f, a, b, v) ==
    IF f.t # "string" \/ f.v = <<>>
    THEN Num(FallbackDamage)
    ELSE LET ctx == context(a, b, v)
             safeFormula == [i \in DOMAIN f.v |-> Substitute(f.v[i], ctx)]
             result == Run(safeFormula)
         IN  IF result = Thrown \/ isNaN(result) = Thrown
             THEN Num(FallbackDamage)
             ELSE IF isNaN(result) = JsBoolean(TRUE)
             THEN Num(FallbackDamage)
             ELSE result

\* The database gives the skill's formula one more token.
HostWritesFormula(token) ==
    /\ formula.t = "string"
    /\ Len(formula.v) < MaxTokens
    /\ formula' = JsString(Append(formula.v, token))
    /\ evaluated' = Undef
    /\ UNCHANGED <<parameters, aiDifficultyMode, aiDebugMode, params,
                   requestedMode, traitVars, caches, analyzed, scoring,
                   battleVars>>

\* A caller evaluates the skill's formula.
Evaluate(a, b, v) ==
    /\ evaluated' = [a |-> a, b |-> b, v |-> v,
                     result |-> evaluate(formula, a, b, v)]
    /\ UNCHANGED <<parameters, aiDifficultyMode, aiDebugMode, params,
                   requestedMode, traitVars, formula, caches, analyzed, scoring,
                   battleVars>>

---------------------------------------------------------------------------
(* The host's database and battle data, as the engine reads them.          *)

Troop == {0, 1}
EnemyName(e) == IF e = 0 THEN "E0" ELSE "E1"
PartyOrder == <<"A", "B">>
Party == {PartyOrder[i] : i \in DOMAIN PartyOrder}

\* this.enemy.attackSkillId(), else 1
AttackSkillId == 1

\* $dataSkills of the modelled troop: the basic attack (element -1, the
\* attacker's own), a stronger attack of element 2, a status skill that adds Sleep to one opponent, and a heal for one ally.
\* Skill 5 is no action of the troop's enemies: an attack of element 2 that
\* also adds Sleep, which the host has an enemy use by a forced action.
dataSkills ==
    [s \in 1..5 |->
        CASE s = 1 -> [scope |-> 1, isDamage |-> TRUE, isHeal |-> FALSE,
                       hasStatusEffect |-> FALSE, damage |-> 10,
                       elementId |-> -1]
          [] s = 2 -> [scope |-> 1, isDamage |-> TRUE, isHeal |-> FALSE,
                       hasStatusEffect |-> FALSE, damage |-> 20,
                       elementId |-> 2]
          [] s = 3 -> [scope |-> 1, isDamage |-> FALSE, isHeal |-> FALSE,
                       hasStatusEffect |-> TRUE, damage |-> 0,
                       elementId |-> 0]
          [] s = 4 -> [scope |-> 7, isDamage |-> FALSE, isHeal |-> TRUE,
                       hasStatusEffect |-> FALSE, damage |-> 0,
                       elementId |-> 0]
          [] s = 5 -> [scope |-> 1, isDamage |-> TRUE, isHeal |-> FALSE,
                       hasStatusEffect |-> TRUE, damage |-> 20,
                       elementId |-> 2]]

\* The effects of code 21 (Add State) among skill.effects: Sleep is the
\* one state the modelled skills add.
AddStateEffects(s) == IF s \in {3, 5} THEN {"Sleep"} ELSE {}

\* this.enemy.enemy().actions; a rating of 0 reads as 5 (action.rating || 5).
enemyActions ==
    <<[skillId |-> 1, rating |-> 1], [skillId |-> 2, rating |-> 2],
      [skillId |-> 3, rating |-> 1], [skillId |-> 4, rating |-> 0]>>

RatingOf(action) == IF action.rating = 0 THEN 5 ELSE action.rating

\* What a battle changes.  status[s] tells the host's checks of skill s:
\* "legal" (isActionValid and affordable and unsealed), "invalid"
\* (isActionValid fails, the skill is affordable) or "unusable" (too
\* costly or sealed).  score[s] is the total score evaluateAction computes
\* for s when it has targets.  alive are the living party members, asleep
\* those of them under Sleep, threat the one the target scoring prefers.
SkillScores(s) ==
    CASE s = 1 -> {0, 100}
      [] s = 2 -> {-50, 100}
      [] s = 3 -> {100}
      [] s = 4 -> {0, 90}

\* The statuses and scores a battle gives skill s: only the status skill is
\* ever ruled out by its action conditions; a total score is negative when
\* the penalties outweigh the sub-scores.
SkillOptions(s) ==
    {[status |-> "unusable", score |-> 0]}
    \cup (IF s = 3 THEN {[status |-> "invalid", score |-> 0]} ELSE {})
    \cup {[status |-> "legal", score |-> sc] : sc \in SkillScores(s)}

\* The party's states: "A" leads, stands and is the one the target scoring
\* prefers; "B" may have fallen, and only "A" is ever put to sleep.
PartyStates ==
    [alive : {{"A"}, {"A", "B"}}, asleep : {{}, {"A"}}, threat : {"A"}]

\* Game_Party.aliveMembers(), in party order.
AliveMembers(bf) == SelectSeq(PartyOrder, LAMBDA m : m \in bf.alive)

SeqToSet(seq) == {seq[i] : i \in DOMAIN seq}

---------------------------------------------------------------------------
(* Skill analysis and target resolution, src lines 1390-1582, 2030-2111.   *)

canUseSkill(bf, s) == bf.status[s] # "unusable"
isActionValid(bf, s) == bf.status[s] # "invalid"

\* analyzeSkillScope
analyzeSkillScope(scope) ==
    CASE scope \in {1, 2, 3, 4, 5, 6} ->
            [type |-> "enemy", all |-> scope = 2, random |-> scope \in 3..6,
             dead |-> FALSE]
      [] scope \in {7, 8, 9, 10, 12, 13} ->
            [type |-> "ally", all |-> scope \in {8, 10, 13}, random |-> FALSE,
             dead |-> scope \in {9, 10}]
      [] scope = 11 ->
            [type |-> "self", all |-> FALSE, random |-> FALSE, dead |-> FALSE]
      [] scope = 14 ->
            [type |-> "all", all |-> FALSE, random |-> FALSE, dead |-> FALSE]
      [] OTHER ->
            [type |-> "none", all |-> FALSE, random |-> FALSE, dead |-> FALSE]

\* filterStatusTargets: a target already under the skill's state is dropped.
filterStatusTargets(bf, potentials) ==
    SelectSeq(potentials, LAMBDA m : m \notin bf.asleep)

\* selectOptimalTargetEnhanced: null (here <<>>) on an empty list, else the
\* best-scored candidate.
selectOptimalTargetEnhanced(bf, potentials) ==
    IF potentials = <<>> THEN <<>>
    ELSE IF bf.threat \in SeqToSet(potentials) THEN <<bf.threat>>
    ELSE <<potentials[1]>>

\* selectOptimalAllyEnhanced over $gameTroop.aliveMembers(): the whole troop
\* is alive and enemy 0 is the most hurt ally.
selectOptimalAllyEnhanced(e) == <<EnemyName(0)>>

getPotentialTargetsEnhanced(bf, e, s) ==
    LET targeting == analyzeSkillScope(dataSkills[s].scope)
    IN  CASE targeting.type = "self" -> <<EnemyName(e)>>
          [] targeting.type = "enemy" ->
                IF targeting.all THEN AliveMembers(bf)
                ELSE IF dataSkills[s].hasStatusEffect
                     THEN selectOptimalTargetEnhanced(
                              bf, filterStatusTargets(bf, AliveMembers(bf)))
                     ELSE selectOptimalTargetEnhanced(bf, AliveMembers(bf))
          [] targeting.type = "ally" -> selectOptimalAllyEnhanced(e)
          [] OTHER -> <<>>

---------------------------------------------------------------------------
(* Condition preservation, src lines 1928-2027 and 2634-2668.              *)

\* StateAnalyzer.getStateValue of Sleep (restriction 4, five or more turns
\* left): the full-disable weight.
SleepValue == 100
\* removeConditions.removeByDamageChance of Sleep, in percent.
SleepRemovalChance == 100
\* (1 - avgHpRatio) * 50 of calculateAlternativePriority for the troop.
HealPriority == 25

checkStateRemovalRisk(bf, s, target) ==
    IF ~dataSkills[s].isDamage THEN [risk |-> 0, stateValue |-> 0]
    ELSE IF target \in bf.asleep /\ SleepValue >= 10
         THEN [risk |-> (SleepValue * SleepRemovalChance) \div 100,
               stateValue |-> SleepValue]
         ELSE [risk |-> 0, stateValue |-> 0]

calculateAlternativePriority(s) ==
    (IF dataSkills[s].hasStatusEffect THEN 40 ELSE 0)
    + (IF dataSkills[s].isHeal THEN HealPriority ELSE 0)

\* getAllAvailableActions: the enemy's actions in order that are valid and
\* usable, as skill ids.
getAllAvailableActions(bf) ==
    LET legal == SelectSeq(enemyActions,
                     LAMBDA a : isActionValid(bf, a.skillId)
                                /\ canUseSkill(bf, a.skillId))
    IN  [i \in DOMAIN legal |-> legal[i].skillId]

\* findAlternativeActions: the priorities of the non-damaging available
\* actions that have targets (the caller reads the highest one only).
findAlternativeActions(bf, e) ==
    {calculateAlternativePriority(s) :
        s \in {a \in SeqToSet(getAllAvailableActions(bf)) :
                  /\ ~dataSkills[a].isDamage
                  /\ dataSkills[a].hasStatusEffect \/ dataSkills[a].isHeal
                  /\ getPotentialTargetsEnhanced(bf, e, a) # <<>>}}

RECURSIVE SumRisk(_, _, _)
SumRisk(bf, s, targets) ==
    IF targets = <<>> THEN 0
    ELSE checkStateRemovalRisk(bf, s, Head(targets)).risk
         + SumRisk(bf, s, Tail(targets))

\* The statePreservationScore evaluateAction gives skill s.
statePreservationScore(bf, e, s, targets) ==
    IF ~(dataSkills[s].isDamage /\ Len(targets) > 0) THEN 0
    ELSE LET totalStateRisk == SumRisk(bf, s, targets)
             highValueStatesAtRisk ==
                 \E i \in DOMAIN targets :
                     checkStateRemovalRisk(bf, s, targets[i]).stateValue > 50
             alternatives == findAlternativeActions(bf, e)
         IN  IF totalStateRisk <= 0 THEN 0
             ELSE IF /\ highValueStatesAtRisk /\ totalStateRisk > 30
                     /\ \E p \in alternatives : p > 30
                  THEN -totalStateRisk - getPluginParams.statePreservationBonus
                  ELSE -totalStateRisk

---------------------------------------------------------------------------
(* evaluateAction, src lines 2602-2741.                                    *)

evaluateAction(bf, e, s) ==
    LET targets == getPotentialTargetsEnhanced(bf, e, s)
        type == analyzeSkillScope(dataSkills[s].scope).type
    IN  IF targets = <<>> /\ type # "self" /\ type # "none"
        THEN [skillId |-> s, isDamage |-> dataSkills[s].isDamage,
              statePreservationScore |-> 0, totalScore |-> -1,
              targets |-> targets]
        ELSE [skillId |-> s, isDamage |-> dataSkills[s].isDamage,
              statePreservationScore |->
                  statePreservationScore(bf, e, s, targets),
              totalScore |-> bf.score[s], targets |-> targets]

\* evaluations.sort((a, b) => b.totalScore - a.totalScore): a stable sort,
\* highest score first.
RECURSIVE InsertByScore(_, _)
InsertByScore(ev, sorted) ==
    IF sorted = <<>> THEN <<ev>>
    ELSE IF Head(sorted).totalScore >= ev.totalScore
         THEN <<Head(sorted)>> \o InsertByScore(ev, Tail(sorted))
         ELSE <<ev>> \o sorted

RECURSIVE SortByScore(_)
SortByScore(evals) ==
    IF evals = <<>> THEN <<>>
    ELSE LET n == Len(evals)
         IN  InsertByScore(evals[n], SortByScore(SubSeq(evals, 1, n - 1)))

\* The evaluations of the available actions, sorted.
SortedEvaluations(bf, e) ==
    LET avail == getAllAvailableActions(bf)
    IN  SortByScore([i \in DOMAIN avail |-> evaluateAction(bf, e, avail[i])])

---------------------------------------------------------------------------
(* The Ledger and the Memory, src lines 1322-1343, 3393-3467.              *)

\* The names a Ledger entry can be keyed by ("null" is the key JavaScript
\* makes of a null target).  A missing key reads as 0, as no list, as not
\* assigned, so each map is a total function with that default.
LedgerKeys == Party \cup {EnemyName(e) : e \in Troop} \cup {"null"}

\* The Memory keys `${target.name()}_element_${elementId}` of the one
\* element the modelled skills carry.
ElementKeys == Party

\* The Memory keys `${target.name()}_state_${stateId}` of the one state the
\* modelled skills add.
ResistanceKeys == Party

EmptyTeamDecisions ==
    [healingAssigned |-> {},
     expectedDamage |-> [k \in LedgerKeys |-> 0],
     targetAssignments |-> [k \in LedgerKeys |-> <<>>],
     sharedKnowledge |-> [k \in ElementKeys |-> Undef]]

EmptyMemory ==
    [skillHistory |-> [s \in DOMAIN dataSkills |->
                          [uses |-> 0, successes |-> 0]],
     elementalData |-> [k \in ElementKeys |-> Undef],
     stateResistance |-> [k \in ResistanceKeys |-> Undef],
     turnCount |-> 0]

\* shareKnowledge: every elemental discovery of the agent's Memory is
\* copied over the shared entry of the same key.
shareKnowledge(shared, memory) ==
    [k \in ElementKeys |->
        IF memory.elementalData[k] # Undef THEN memory.elementalData[k]
        ELSE shared[k]]

\* registerDecision(decision) of the engine of enemy e.
registerDecision(ledger, e, decision, behavior, memory) ==
    LET key == IF decision.target = Undef THEN "null" ELSE decision.target.v
        l1 == IF decision.isHealing
              THEN [ledger EXCEPT !.healingAssigned = @ \cup {key}]
              ELSE ledger
        l2 == IF decision.expectedDamage > 0
              THEN [l1 EXCEPT !.expectedDamage[key] =
                                  @ + decision.expectedDamage]
              ELSE l1
        l3 == IF decision.target # Undef
              THEN [l2 EXCEPT !.targetAssignments[key] =
                                  Append(@, EnemyName(e))]
              ELSE l2
    IN  IF behavior.sharedKnowledge
        THEN [l3 EXCEPT !.sharedKnowledge = shareKnowledge(@, memory)]
        ELSE l3

RECURSIVE SumLen(_, _)
SumLen(f, keys) ==
    IF keys = {} THEN 0
    ELSE LET k == CHOOSE x \in keys : TRUE
         IN  Len(f[k]) + SumLen(f, keys \ {k})

\* The decisions registered in the ledger since the encounter started.
LedgerSize(ledger) == SumLen(ledger.targetAssignments, LedgerKeys)

---------------------------------------------------------------------------
(* makeDecision, src lines 3514-3694.  Math.random() is drawn from         *)
(* RandomUnit where it is compared with a chance, and an index             *)
(* floor(Math.random() * n) ranges over 0..n-1; makeDecision is the set of *)
(* results the draws can give.                                             *)

RandomUnit == {0, 50, 99}

\* $gameParty.randomTarget() || $gameParty.members()[0]: a living member
\* (a battle goes on only while one stands).
randomTarget_AnyMember(bf) == Party
randomTarget(bf) == bf.alive

RECURSIVE Repeat(_, _)
Repeat(x, n) == IF n = 0 THEN <<>> ELSE <<x>> \o Repeat(x, n - 1)

\* The list in which each action's skill stands rating times.
RECURSIVE Weighted(_)
Weighted(actions) ==
    IF actions = <<>> THEN <<>>
    ELSE Repeat(Head(actions).skillId, RatingOf(Head(actions)))
         \o Weighted(Tail(actions))

\* getRandomValidSkill(includeBasicAttack): the ids it can return.
getRandomValidSkill(bf, includeBasicAttack) ==
    LET validActions ==
            Weighted(SelectSeq(enemyActions,
                LAMBDA a : /\ isActionValid(bf, a.skillId)
                           /\ canUseSkill(bf, a.skillId)
                           /\ ~(~includeBasicAttack
                                /\ a.skillId = AttackSkillId)))
        allSkills ==
            Weighted(SelectSeq(enemyActions,
                LAMBDA a : ~includeBasicAttack \/ a.skillId # AttackSkillId))
    IN  IF validActions # <<>>
        THEN {validActions[k + 1] : k \in 0..(Len(validActions) - 1)}
        ELSE IF allSkills # <<>>
             THEN {allSkills[k + 1] : k \in 0..(Len(allSkills) - 1)}
             ELSE {AttackSkillId}

\* Lines 3613-3630: a top choice that would break valuable conditions is
\* preceded by the best non-damaging alternative.
PromoteAlternative(evaluations, debugMode) ==
    IF evaluations # <<>> /\ evaluations[1].statePreservationScore < -50
    THEN LET top == evaluations[1].totalScore
             nonDamagingEvals ==
                 SelectSeq(evaluations,
                     LAMBDA ev : ~ev.isDamage /\ 10 * ev.totalScore > 7 * top)
         IN  IF /\ nonDamagingEvals # <<>> /\ debugMode
                /\ 10 * nonDamagingEvals[1].totalScore > 8 * top
             THEN <<nonDamagingEvals[1]>> \o evaluations
             ELSE evaluations
    ELSE evaluations

NoDecision == [skillId |-> 0, targets |-> <<>>, path |-> "none"]

\* Lines 3647-3666: no evaluation scores positive.
FallbackDecisions(bf, e) ==
    UNION {
        IF randomSkillId \in DOMAIN dataSkills /\ randomSkillId # AttackSkillId
        THEN LET targets == getPotentialTargetsEnhanced(bf, e, randomSkillId)
             IN  IF Len(targets) > 0
                 THEN {[skillId |-> randomSkillId, targets |-> targets,
                        path |-> "fallback"]}
                 ELSE {[skillId |-> randomSkillId, targets |-> <<t>>,
                        path |-> "fallback"] : t \in randomTarget(bf)}
        ELSE {[skillId |-> AttackSkillId, targets |-> <<t>>,
               path |-> "fallbackAttack"] : t \in randomTarget(bf)}
        : randomSkillId \in getRandomValidSkill(bf, FALSE)}

\* Line 3634: the places of the sorted list a mistake picks from,
\* floor(Math.random() * Math.min(3, evaluations.length)).
MistakeIndexes_All(evaluations) == 0..(Len(evaluations) - 1)
MistakeIndexes(evaluations) ==
    0..((IF Len(evaluations) < 3 THEN Len(evaluations) ELSE 3) - 1)

\* Lines 3576-3589: no action is available.
NoActionDecisions(bf) ==
    {[skillId |-> AttackSkillId, targets |-> <<t>>,
      path |-> "noActions"] : t \in randomTarget(bf)}

\* Lines 3613-3692: the choice among the sorted evaluations.
chooseDecision(sorted, bf, e, behavior, debugMode) ==
    LET evaluations == PromoteAlternative(sorted, debugMode)
        mistake(u) ==
            behavior.mistakeChance > 0 /\ u < behavior.mistakeChance
        indexes == MistakeIndexes(evaluations)
        positive(i) == evaluations[i + 1].totalScore > 0
        mistakes ==
            IF \E u \in RandomUnit : mistake(u)
            THEN {[skillId |-> evaluations[i + 1].skillId,
                   targets |-> evaluations[i + 1].targets,
                   path |-> "mistake"] :
                       i \in {j \in indexes : positive(j)}}
            ELSE {}
        passes ==
            \/ \E u \in RandomUnit : ~mistake(u)
            \/ \E i \in indexes : ~positive(i)
        others ==
            IF ~passes THEN {}
            ELSE IF evaluations[1].totalScore <= 0
                 THEN FallbackDecisions(bf, e)
                 ELSE {[skillId |-> evaluations[1].skillId,
                        targets |-> evaluations[1].targets,
                        path |-> "best"]}
    IN  mistakes \cup others

makeDecision(bf, e, behavior, debugMode) ==
    IF getAllAvailableActions(bf) = <<>>
    THEN NoActionDecisions(bf)
    ELSE chooseDecision(SortedEvaluations(bf, e), bf, e, behavior, debugMode)

\* Lines 3678-3686: what the best choice registers in the Ledger.
DecisionToRegister(d) ==
    [isHealing |-> dataSkills[d.skillId].isHeal,
     expectedDamage |->
         IF Len(d.targets) > 0 THEN dataSkills[d.skillId].damage ELSE 0,
     target |-> IF Len(d.targets) > 0 THEN [t |-> "name", v |-> d.targets[1]]
                ELSE Undef]

---------------------------------------------------------------------------
(* StrategicAdaptation, src lines 1131-1196.  combatPatterns[name] of a    *)
(* name never tracked reads as the all-zero pattern the code starts from.  *)

NoPattern == [turns |-> 0, damageDealt |-> 0, healingReceived |-> 0]

\* constructor() and reset()
reset == [combatPatterns |-> [m \in Party |-> NoPattern], stalemateTurns |-> 0]

trackCombatPattern(sa, target, damage, wasHealed) ==
    LET old == sa.combatPatterns[target]
        pattern == [turns |-> old.turns + 1,
                    damageDealt |-> old.damageDealt + damage,
                    healingReceived |-> IF wasHealed
                                        THEN old.healingReceived + damage
                                        ELSE old.healingReceived]
        floor == IF pattern.damageDealt > 1 THEN pattern.damageDealt ELSE 1
        highSustain == 10 * pattern.healingReceived > 8 * floor
    IN  [combatPatterns |-> [sa.combatPatterns EXCEPT ![target] = pattern],
         stalemateTurns |->
             IF highSustain /\ pattern.turns > 5 THEN sa.stalemateTurns + 1
             ELSE IF sa.stalemateTurns > 0 THEN sa.stalemateTurns - 1 ELSE 0]

\* getStrategyAdjustments().inStalemate
inStalemate(sa) == sa.stalemateTurns > getPluginParams.antiExploitThreshold

\* this.strategicAdaptation of an engine as constructed (line 1234).
EngineAdaptation == reset

---------------------------------------------------------------------------
(* Game_Enemy.prototype.selectAllActions, src lines 3698-3753.             *)

\* The most actions per turn the host gives an enemy.
MaxActionTimes == 1

\* The decisions an encounter registers before it ends.
MaxDecisions == 1

\* Where a call can raise: while the engine is built and decides (before
\* the decision is registered), or while the decision is verified.
FailPoints == {"none", "decide", "verify"}

\* The statements the try block (lines 3701-3743) encloses.
CatchesAt_UntilDecision(point) == point = "decide"
CatchesAt(point) == point \in {"decide", "verify", "install"}

\* Game_Battler._actions entries: as the host's makeActions leaves them
\* before the call, as the host's own selectAllActions fills them, and as
\* the engine builds them.
BlankAction == [by |-> "blank", skillId |-> 0, targetIndex |-> -1]
HostAction == [by |-> "host", skillId |-> 0, targetIndex |-> -1]

\* _Game_Enemy_selectAllActions.call(this, actionList): the host gives a
\* skill of its choice to every action in the queue.
hostSelectAllActions(queue) == [i \in DOMAIN queue |-> HostAction]

\* target.index() of an actor, $gameTroop.members().indexOf(target) else.
TargetIndex(name) ==
    IF name \in Party
    THEN (CHOOSE i \in DOMAIN PartyOrder : PartyOrder[i] = name) - 1
    ELSE CHOOSE e \in Troop : EnemyName(e) = name

\* Lines 3721-3740: for (let i = 0; i < this.numActions(); i++) with
\* numActions() the length of the queue the loop appends to.  done tells
\* whether the loop ended within fuel iterations.
RECURSIVE InstallLoop(_, _, _, _)
InstallLoop(queue, i, action, fuel) ==
    IF i < Len(queue)
    THEN IF fuel = 0 THEN [queue |-> queue, done |-> FALSE]
         ELSE InstallLoop(Append(queue, action), i + 1, action, fuel - 1)
    ELSE [queue |-> queue, done |-> TRUE]

\* Game_Battler.clearActions()
clearActions(queue) == <<>>

NoBattle == [t |-> "none"]
NoCall ==
    [enemy |-> -1, confused |-> FALSE, failAt |-> "none", outcome |-> "none",
     decision |-> NoDecision, behavior |-> Undef, adaptation |-> Undef]

\* getBattleMemory: the entry of the agent is created when missing.
getBattleMemory(memoryTable, e) ==
    IF memoryTable[e] = Undef THEN [memoryTable EXCEPT ![e] = EmptyMemory]
    ELSE memoryTable

\* The profile an engine takes when it is constructed (lines 1236-1237).
EngineBehavior_FromOption ==
    getDifficultyBehavior(JsOr(JsNumber(parameters["difficultyMode"]), 1))
EngineBehavior == getDifficultyBehavior(getPluginParams.difficultyMode)

selectAllActions(e) ==
    /\ battlefield # NoBattle
    /\ \E n \in 1..MaxActionTimes, confused \in BOOLEAN, failAt \in FailPoints :
          LET queue0 == Repeat(BlankAction, n)
              behavior == EngineBehavior
              memoryTable == getBattleMemory(enemyAIMemory, e)
              finish(outcome, queue, ledger, d, beh) ==
                  /\ actionQueue' = [actionQueue EXCEPT ![e] = queue]
                  /\ teamDecisions' = ledger
                  /\ call' = [enemy |-> e, confused |-> confused,
                              failAt |-> failAt, outcome |-> outcome,
                              decision |-> d, behavior |-> beh,
                              adaptation |-> IF beh = Undef THEN Undef
                                             ELSE EngineAdaptation]
              default(ledger, d, beh) ==
                  finish("default", hostSelectAllActions(queue0), ledger, d, beh)
              failed(ledger, d, beh) ==
                  IF CatchesAt(failAt) THEN default(ledger, d, beh)
                  ELSE finish("propagated", queue0, ledger, d, beh)
          IN  IF confused
              THEN /\ failAt = "none"
                   /\ default(teamDecisions, NoDecision, Undef)
                   /\ UNCHANGED enemyAIMemory
              ELSE /\ enemyAIMemory' = memoryTable
                   /\ IF failAt = "decide"
                      THEN failed(teamDecisions, NoDecision, behavior)
                      ELSE \E d \in makeDecision(battlefield, e, behavior,
                                                 getPluginParams.debugMode) :
                        LET ledger ==
                                IF d.path = "best"
                                THEN registerDecision(teamDecisions, e,
                                         DecisionToRegister(d), behavior,
                                         memoryTable[e])
                                ELSE teamDecisions
                            canUse == /\ d.skillId \in DOMAIN dataSkills
                                      /\ canUseSkill(battlefield, d.skillId)
                            hasValidTarget == ~(canUse /\ Len(d.targets) = 0)
                            installed ==
                                InstallLoop(clearActions(queue0), 0,
                                    [by |-> "engine", skillId |-> d.skillId,
                                     targetIndex |-> TargetIndex(d.targets[1])],
                                    MaxActionTimes + 1)
                        IN  IF failAt = "verify" THEN failed(ledger, d, behavior)
                            ELSE IF canUse /\ hasValidTarget
                            THEN finish(IF installed.done THEN "installed"
                                                          ELSE "hang",
                                        installed.queue, ledger, d, behavior)
                            ELSE default(ledger, d, behavior)
    /\ UNCHANGED <<cfgVars, battlefield, globalAIMemory, tracked>>

---------------------------------------------------------------------------
(* One call of selectAllActions followed statement by statement: the       *)
(* engine is built, makeDecision analyses the battle, lists the available  *)
(* actions, scores them one after another, chooses, and the decision is    *)
(* verified and installed.                                                 *)
(* The code is synchronous, so while scoring is set no other handler runs. *)

scoringUnchanged == <<optionVars, traitVars, formulaVars, caches, analyzed>>

\* Line 3702: new AIDecisionEngine(this), of an enemy that is not confused.
NewEngine(e) ==
    /\ battlefield # NoBattle
    /\ scoring = Undef
    /\ enemyAIMemory' = getBattleMemory(enemyAIMemory, e)
    /\ scoring' = [enemy |-> e, phase |-> "constructed",
                   behavior |-> EngineBehavior, battleState |-> Undef,
                   actions |-> <<>>, evaluations |-> <<>>,
                   decision |-> NoDecision]
    /\ UNCHANGED <<scoringUnchanged, battlefield, actionQueue, teamDecisions,
                   globalAIMemory, call, tracked>>

\* analyzeBattleState(): what it reads of the Memory and of the party.  (It
\* also files the actors' equipment analysis in the shared pool's
\* knownEquipment, a field of the pool that is not held here.)
analyzeBattleState(bf, memory) ==
    [turnCount |-> memory.turnCount, enemyCount |-> Len(AliveMembers(bf))]

\* Lines 3564-3568: makeDecision starts with analyzeBattleState().
BeginDecision ==
    /\ scoring # Undef
    /\ scoring.phase = "constructed"
    /\ scoring' = [scoring EXCEPT
                      !.phase = "analyzed",
                      !.battleState =
                          analyzeBattleState(battlefield,
                                             enemyAIMemory[scoring.enemy])]
    /\ UNCHANGED <<scoringUnchanged, battleVars>>

\* Line 3570: getAllAvailableActions().
EnumerateActions ==
    /\ scoring # Undef
    /\ scoring.phase = "analyzed"
    /\ scoring' = [scoring EXCEPT !.phase = "scoring",
                                  !.actions = getAllAvailableActions(battlefield)]
    /\ UNCHANGED <<scoringUnchanged, battleVars>>

\* Lines 3591-3596, with a write to the Ledger for what is being scored.
EvaluateNext_Registering ==
    /\ scoring # Undef
    /\ scoring.phase = "scoring"
    /\ Len(scoring.evaluations) < Len(scoring.actions)
    /\ LET action == scoring.actions[Len(scoring.evaluations) + 1]
           evaluation == evaluateAction(battlefield, scoring.enemy, action)
       IN  /\ scoring' = [scoring EXCEPT !.evaluations = Append(@, evaluation)]
           /\ teamDecisions' =
                  registerDecision(teamDecisions, scoring.enemy,
                      DecisionToRegister(evaluation), scoring.behavior,
                      enemyAIMemory[scoring.enemy])
    /\ UNCHANGED <<scoringUnchanged, battlefield, actionQueue, enemyAIMemory,
                   globalAIMemory, call, tracked>>
\* Lines 3591-3596: one pass of the loop, evaluateAction of the next action.
EvaluateNext ==
    /\ scoring # Undef
    /\ scoring.phase = "scoring"
    /\ Len(scoring.evaluations) < Len(scoring.actions)
    /\ LET action == scoring.actions[Len(scoring.evaluations) + 1]
           evaluation == evaluateAction(battlefield, scoring.enemy, action)
       IN  scoring' = [scoring EXCEPT !.evaluations = Append(@, evaluation)]
    /\ UNCHANGED <<scoringUnchanged, battleVars>>

\* Lines 3610-3693, the list of evaluations emptied instead of a return.
ChooseAction_ScoreAgain ==
    /\ scoring # Undef
    /\ scoring.phase = "scoring"
    /\ Len(scoring.evaluations) = Len(scoring.actions)
    /\ scoring.actions # <<>>
    /\ scoring' = [scoring EXCEPT !.evaluations = <<>>]
    /\ UNCHANGED <<scoringUnchanged, battleVars>>
\* Lines 3576-3589 and 3610-3693: the sort, the choice and, for the best
\* score, registerDecision; makeDecision returns.
ChooseAction ==
    /\ scoring # Undef
    /\ scoring.phase = "scoring"
    /\ Len(scoring.evaluations) = Len(scoring.actions)
    /\ \E d \in IF scoring.actions = <<>>
                THEN NoActionDecisions(battlefield)
                ELSE chooseDecision(SortByScore(scoring.evaluations),
                         battlefield, scoring.enemy, scoring.behavior,
                         getPluginParams.debugMode) :
          /\ scoring' = [scoring EXCEPT !.phase = "returned", !.decision = d]
          /\ teamDecisions' =
                 IF d.path = "best"
                 THEN registerDecision(teamDecisions, scoring.enemy,
                          DecisionToRegister(d), scoring.behavior,
                          enemyAIMemory[scoring.enemy])
                 ELSE teamDecisions
    /\ UNCHANGED <<scoringUnchanged, battlefield, actionQueue, enemyAIMemory,
                   globalAIMemory, call, tracked>>

\* Lines 3705-3752: the decision is verified, then installed or left to the
\* host's selection.
InstallDecision ==
    /\ scoring # Undef
    /\ scoring.phase = "returned"
    /\ \E n \in 1..MaxActionTimes :
          LET e == scoring.enemy
              d == scoring.decision
              queue0 == Repeat(BlankAction, n)
              canUse == /\ d.skillId \in DOMAIN dataSkills
                        /\ canUseSkill(battlefield, d.skillId)
              hasValidTarget == ~(canUse /\ Len(d.targets) = 0)
              installed ==
                  InstallLoop(clearActions(queue0), 0,
                      [by |-> "engine", skillId |-> d.skillId,
                       targetIndex |-> TargetIndex(d.targets[1])],
                      MaxActionTimes + 1)
              accepted == canUse /\ hasValidTarget
          IN  /\ actionQueue' =
                     [actionQueue EXCEPT ![e] =
                         IF accepted THEN installed.queue
                         ELSE hostSelectAllActions(queue0)]
              /\ call' = [enemy |-> e, confused |-> FALSE, failAt |-> "none",
                          outcome |-> IF ~accepted THEN "default"
                                      ELSE IF installed.done THEN "installed"
                                      ELSE "hang",
                          decision |-> d, behavior |-> scoring.behavior,
                          adaptation |-> EngineAdaptation]
    /\ scoring' = Undef
    /\ UNCHANGED <<scoringUnchanged, battlefield, teamDecisions, enemyAIMemory,
                   globalAIMemory, tracked>>

---------------------------------------------------------------------------
(* The engine's analysis caches, src lines 1231-1233, 1258-1283, 1416-1420, *)
(* 1694-1697, 1756 and 1761-1770.  A cache is held as the list of its keys  *)
(* in the order they were inserted.                                         *)

\* The ids the database has states and skills for.
MaxKeys == 21

\* const maxCacheSize = 20
maxCacheSize == 20

CacheKeys == 1..MaxKeys

\* `actor_${actorId}` and `enemy_${index}` of the combatants.
TraitKeys == <<"actor_1", "actor_2", "enemy_0", "enemy_1">>

\* The constructor's three empty caches; started tells whether makeDecision
\* has begun.
EmptyCaches ==
    [stateAnalysisCache |-> <<>>, skillAnalysisCache |-> <<>>,
     traitAnalysisCache |-> <<>>, started |-> FALSE]

\* Object.keys of an object whose keys are integers: ascending, whatever
\* the order of insertion.
RECURSIVE Ascending(_)
Ascending(ids) ==
    IF ids = {} THEN <<>>
    ELSE LET least == CHOOSE i \in ids : \A j \in ids : i <= j
         IN  <<least>> \o Ascending(ids \ {least})

ObjectKeys(cache) ==
    IF \A i \in DOMAIN cache : cache[i] \in Int
    THEN Ascending(SeqToSet(cache))
    ELSE cache

\* for (i = 0; i < keys.length - maxCacheSize; i++) delete cache[keys[i]]
Evict(cache) ==
    IF Len(cache) > maxCacheSize
    THEN LET keys == ObjectKeys(cache)
             deleted == {keys[i] : i \in 1..(Len(keys) - maxCacheSize)}
         IN  SelectSeq(cache, LAMBDA k : k \notin deleted)
    ELSE cache

clearCaches(c) ==
    [c EXCEPT !.stateAnalysisCache = Evict(@),
              !.skillAnalysisCache = Evict(@),
              !.traitAnalysisCache = Evict(@)]

\* if (cache[key]) return cache[key]; ... cache[key] = analysis
Cached(cache, key) ==
    IF key \in SeqToSet(cache) THEN cache ELSE Append(cache, key)

cacheUnchanged ==
    <<optionVars, traitVars, formulaVars, analyzed, scoring, battleVars>>

\* new AIDecisionEngine(enemy), lines 1231-1233.
ConstructEngine ==
    /\ caches' = EmptyCaches
    /\ UNCHANGED cacheUnchanged

\* makeDecision's first statement, this.clearCaches().
StartDecision ==
    /\ caches # Undef
    /\ ~caches.started
    /\ caches' = [clearCaches(caches) EXCEPT !.started = TRUE]
    /\ UNCHANGED cacheUnchanged

getStateAnalysis(stateId) ==
    /\ caches # Undef
    /\ caches.started
    /\ caches' = [caches EXCEPT !.stateAnalysisCache = Cached(@, stateId)]
    /\ UNCHANGED cacheUnchanged

getSkillAnalysis(skillId) ==
    /\ caches # Undef
    /\ caches.started
    /\ caches' = [caches EXCEPT !.skillAnalysisCache = Cached(@, skillId)]
    /\ UNCHANGED cacheUnchanged

getTraitAnalysis(key) ==
    /\ caches # Undef
    /\ caches.started
    /\ caches' = [caches EXCEPT !.traitAnalysisCache = Cached(@, key)]
    /\ UNCHANGED cacheUnchanged

---------------------------------------------------------------------------
(* BattleManager.setup, src lines 3969-4025.                               *)

\* Object.assign(target, source) on maps over the same keys.
ObjectAssign(target, source) ==
    [k \in DOMAIN target |-> IF source[k] # Undef THEN source[k] ELSE target[k]]

\* The battlefield as an encounter starts: everyone alive, no conditions,
\* every skill legal.
FreshBattlefield ==
    [status |-> [s \in 1..4 |-> "legal"], score |-> [s \in 1..4 |-> 100],
     alive |-> Party, asleep |-> {}, threat |-> "A"]

BattleManagerSetup ==
    LET p == getPluginParams
        kept == IF ~getDifficultyBehavior(p.difficultyMode).persistentMemory
                THEN [i \in Troop |-> Undef]
                ELSE enemyAIMemory
        initialised ==
            [i \in Troop |-> IF kept[i] = Undef THEN EmptyMemory ELSE kept[i]]
        loaded ==
            IF p.difficultyMode = 2
            THEN [i \in Troop |->
                    [initialised[i] EXCEPT
                        !.elementalData =
                            ObjectAssign(@, globalAIMemory.knownWeaknesses),
                        !.stateResistance =
                            ObjectAssign(@, globalAIMemory.knownResistances)]]
            ELSE initialised
    IN  /\ enemyAIMemory' = loaded
        /\ teamDecisions' = EmptyTeamDecisions
        /\ battlefield' = FreshBattlefield
        /\ actionQueue' = [e \in Troop |-> <<>>]
        /\ call' = NoCall
        /\ tracked' = [e \in Troop |-> reset]
        /\ UNCHANGED <<cfgVars, globalAIMemory>>

---------------------------------------------------------------------------
(* Learning from results, src lines 3470-3511, 3831-3922, 4028-4039.       *)

\* The times a skill is used, and the turns taken, while memories are kept.
MaxUses == 3
MaxTurn == 1

\* target.elementRate(elementId), in hundredths: "A" is weak to element 2.
ElementRate(target) == IF target = "A" THEN 200 ELSE 100

\* updateMemory(skillId, target, success, damage)
updateMemory(memory, s, success) ==
    [memory EXCEPT !.skillHistory[s] =
        [uses |-> @.uses + 1,
         successes |-> IF success THEN @.successes + 1 ELSE @.successes]]

\* getElementRate(target, elementId) of an engine holding the memory, for
\* the element of the modelled skills: an entry that is truthy answers with
\* its rate property, which a bare number has not; else the target's traits
\* answer, traits.elementRates[elementId] || 1.0.
getElementRate(memory, target) ==
    LET entry == memory.elementalData[target]
    IN  IF entry # Undef /\ entry # Num(0)
        THEN IF "rate" \in DOMAIN entry THEN Num(entry.rate) ELSE Undef
        ELSE Num(IF ElementRate(target) = 0 THEN 100 ELSE ElementRate(target))

\* Lines 3882-3901: the attempt is counted, and a success when the target
\* is under the state as the hook runs.
trackStateResistance(entry, affected) ==
    LET old == IF entry = Undef THEN [attempts |-> 0, successes |-> 0]
               ELSE entry
    IN  [attempts |-> old.attempts + 1,
         successes |-> IF affected THEN old.successes + 1 ELSE old.successes]

\* target.hp when the hit lands, and target.mhp.
TargetHp == 100
TargetMhp == 120

\* Math.abs
Abs(n) == IF n < 0 THEN -n ELSE n

\* The host's executeHpDamage: target.gainHp(-value), the HP kept within
\* 0 and mhp.
HpAfter(beforeHp, value) ==
    IF beforeHp - value < 0 THEN 0
    ELSE IF beforeHp - value > TargetMhp THEN TargetMhp
    ELSE beforeHp - value

\* Game_Action.executeHpDamage of enemy e's skill s on target: the host
\* takes the damage off the target's HP, then the hook records the outcome
\* with an engine built for the occasion.
executeHpDamage(e, s, target, damage) ==
    /\ battlefield # NoBattle
    /\ target \in battlefield.alive
    /\ dataSkills[s].isDamage
    /\ enemyAIMemory[e] # Undef
    /\ enemyAIMemory[e].skillHistory[s].uses < MaxUses
    /\ LET beforeHp == TargetHp
           hp == HpAfter(beforeHp, damage)
           damageSeen == beforeHp - hp
           wasHealed == hp > (beforeHp - damageSeen)
           elementId == dataSkills[s].elementId
           elementRate == ElementRate(target)
           m1 == updateMemory(enemyAIMemory[e], s, damageSeen # 0)
           affected == target \in battlefield.asleep
           m2 == IF AddStateEffects(s) # {}
                 THEN [m1 EXCEPT !.stateResistance[target] =
                          trackStateResistance(@, affected)]
                 ELSE m1
           m3 == IF elementId > 0
                 THEN [m2 EXCEPT !.elementalData[target] =
                          [rate |-> elementRate, discovered |-> TRUE,
                           lastDamage |-> damageSeen]]
                 ELSE m2
       IN  /\ enemyAIMemory' = [enemyAIMemory EXCEPT ![e] = m3]
           /\ globalAIMemory' =
                 IF elementId > 0 /\ EngineBehavior.sharedKnowledge
                 THEN [globalAIMemory EXCEPT
                          !.knownWeaknesses[target] = Num(elementRate)]
                 ELSE globalAIMemory
           /\ tracked' = [tracked EXCEPT ![e] =
                 trackCombatPattern(@, target, Abs(damageSeen), wasHealed)]
    /\ UNCHANGED <<cfgVars, battlefield, actionQueue, teamDecisions, call>>

\* BattleManager.endTurn: every memory counts the turn.
endTurn_NewRound ==
    /\ battlefield # NoBattle
    /\ teamDecisions' = EmptyTeamDecisions
    /\ UNCHANGED <<cfgVars, battlefield, actionQueue, enemyAIMemory,
                   globalAIMemory, call, tracked>>
endTurn ==
    /\ battlefield # NoBattle
    /\ \A e \in Troop :
          enemyAIMemory[e] # Undef => enemyAIMemory[e].turnCount < MaxTurn
    /\ enemyAIMemory' =
          [e \in Troop |->
              IF enemyAIMemory[e] # Undef
              THEN [enemyAIMemory[e] EXCEPT !.turnCount = @ + 1]
              ELSE enemyAIMemory[e]]
    /\ UNCHANGED <<cfgVars, battlefield, actionQueue, teamDecisions,
                   globalAIMemory, call, tracked>>

\* A number held exactly, as numerator over denominator.
Ratio(n, d) == [n |-> n, d |-> d]
One == Ratio(1, 1)
RatioEq(a, b) == a.n * b.d = b.n * a.d
RatioLeq(a, b) == a.n * b.d <= b.n * a.d

\* Math.max(lo, Math.min(hi, x))
Clamp(lo, hi, x) ==
    IF RatioLeq(x, lo) THEN lo ELSE IF RatioLeq(hi, x) THEN hi ELSE x

\* 1 + learningRate * (successes / uses - 0.5), learningRate in hundredths.
LearningModifier(history, learningRate) ==
    Ratio(200 * history.uses
              + learningRate * (2 * history.successes - history.uses),
          200 * history.uses)

\* getHistoricalModifier(skillId) of an engine with the given Memory and
\* profile.
getHistoricalModifier_NoMinimum(memory, s, behavior) ==
    Clamp(Ratio(1, 2), Ratio(3, 2),
          LearningModifier(memory.skillHistory[s], behavior.learningRate))
getHistoricalModifier(memory, s, behavior) ==
    IF memory.skillHistory[s].uses < 3 THEN One
    ELSE Clamp(Ratio(1, 2), Ratio(3, 2),
               LearningModifier(memory.skillHistory[s], behavior.learningRate))

\* The resetAIMemory command, src lines 4058-4081.
ResetMemoryTable_Kept == enemyAIMemory
ResetMemoryTable == [e \in Troop |-> Undef]

---------------------------------------------------------------------------
(* The host's battle: costs paid, conditions added and worn off, members   *)
(* falling and rising change what the engine reads at the next call.       *)

HostChangesSkill(s, option) ==
    /\ battlefield # NoBattle
    /\ battlefield' = [battlefield EXCEPT !.status[s] = option.status,
                                          !.score[s] = option.score]
    /\ battlefield' # battlefield
    /\ actionQueue' = [e \in Troop |-> <<>>]
    /\ call' = NoCall
    /\ UNCHANGED <<cfgVars, teamDecisions, enemyAIMemory, globalAIMemory,
                   tracked>>

HostChangesParty(ps) ==
    /\ battlefield # NoBattle
    /\ battlefield' = [battlefield EXCEPT !.alive = ps.alive,
                                          !.asleep = ps.asleep,
                                          !.threat = ps.threat]
    /\ battlefield' # battlefield
    /\ actionQueue' = [e \in Troop |-> <<>>]
    /\ call' = NoCall
    /\ UNCHANGED <<cfgVars, teamDecisions, enemyAIMemory, globalAIMemory,
                   tracked>>

---------------------------------------------------------------------------
(* The plugin as loaded, before any battle.                                *)

DefaultParameters ==
    [opt \in NumericOptions \cup BooleanOptions |-> Undef]

EmptyGlobalMemory ==
    [knownWeaknesses |-> [k \in ElementKeys |-> Undef],
     knownResistances |-> [k \in ResistanceKeys |-> Undef]]

resetAIMemory ==
    /\ enemyAIMemory' = ResetMemoryTable
    /\ teamDecisions' = EmptyTeamDecisions
    /\ globalAIMemory' = EmptyGlobalMemory
    /\ UNCHANGED <<cfgVars, battlefield, actionQueue, call, tracked>>

InitBattle ==
    /\ battlefield = NoBattle
    /\ actionQueue = [e \in Troop |-> <<>>]
    /\ teamDecisions = EmptyTeamDecisions
    /\ enemyAIMemory = [e \in Troop |-> Undef]
    /\ globalAIMemory = EmptyGlobalMemory
    /\ call = NoCall
    /\ tracked = [e \in Troop |-> reset]

InitSystem ==
    /\ aiDifficultyMode = Undef
    /\ aiDebugMode = Undef
    /\ requestedMode = Undef
    /\ params = Undef
    /\ traitList = <<>>
    /\ analysis = Undef
    /\ formula = Undef
    /\ evaluated = Undef
    /\ caches = Undef
    /\ analyzed = Undef
    /\ scoring = Undef

\* The options as documented, Story Mode's mistake chance set to 1.0.
DecisionParameters ==
    [DefaultParameters EXCEPT !["mistakeChance"] = Num(100)]

\* Decisions of one agent over the battlefields of an encounter, in a game
\* whose difficulty and debug mode were set by earlier commands.
Init ==
    /\ parameters = DecisionParameters
    /\ aiDifficultyMode \in {Num(0), Num(2)}
    /\ requestedMode = aiDifficultyMode
    /\ aiDebugMode \in {BoolText(b) : b \in BOOLEAN}
    /\ params = Undef
    /\ traitList = <<>>
    /\ analysis = Undef
    /\ formula = Undef
    /\ evaluated = Undef
    /\ caches = Undef
    /\ analyzed = Undef
    /\ scoring = Undef
    /\ InitBattle

Next ==
    \/ BattleManagerSetup
    \/ LedgerSize(teamDecisions) < MaxDecisions /\ selectAllActions(0)
    \/ \E s \in 1..4 : \E option \in SkillOptions(s) : HostChangesSkill(s, option)
    \/ \E ps \in PartyStates : HostChangesParty(ps)

Spec == Init /\ [][Next]_vars

---------------------------------------------------------------------------
(* The options as a project configures them: one option set, the others    *)
(* left out; commands run and callers read the options.                    *)

\* What the plugin manager hands over for an option: nothing, a text that
\* is no number, the ends of its documented range, its default or, where no
\* range is documented, another number.
RangeEnds(opt) ==
    {x \in DocumentedRange(opt) :
        \/ \A y \in DocumentedRange(opt) : x <= y
        \/ \A y \in DocumentedRange(opt) : x >= y}

RawValuesOf(opt) ==
    IF opt \in BooleanOptions THEN {Undef, BoolText(TRUE), BoolText(FALSE)}
    ELSE {Undef, Text, Num(DefaultOf(opt))}
         \cup (IF opt \in RangedOptions THEN {Num(v) : v \in RangeEnds(opt)}
                ELSE {Num(DefaultOf(opt) + 1)})

InitParams ==
    /\ \E opt \in NumericOptions \cup BooleanOptions :
          \E raw \in RawValuesOf(opt) :
              parameters = [DefaultParameters EXCEPT ![opt] = raw]
    /\ InitSystem
    /\ InitBattle

NextParams ==
    \/ ReadPluginParams
    \/ \E arg \in CommandArgs : changeDifficulty(arg)
    \/ toggleDebugMode

SpecParams == InitParams /\ [][NextParams]_vars

---------------------------------------------------------------------------
(* Difficulty commands run between the decisions of the troop.             *)

InitProfile ==
    /\ parameters = DefaultParameters
    /\ InitSystem
    /\ InitBattle

NextProfile ==
    \/ \E arg \in CommandArgs : changeDifficulty(arg)
    \/ BattleManagerSetup
    \/ \E e \in Troop :
          LedgerSize(teamDecisions) < MaxDecisions /\ selectAllActions(e)

SpecProfile == InitProfile /\ [][NextProfile]_vars

---------------------------------------------------------------------------
(* Encounters following one another: memories learn, turns end, the        *)
(* difficulty changes, the next encounter is set up.                       *)

InitMemory ==
    /\ \E raw \in {Undef, BoolText(TRUE)} :
          parameters = [DefaultParameters EXCEPT !["persistentMemory"] = raw]
    /\ InitSystem
    /\ InitBattle

NextMemory ==
    \/ BattleManagerSetup
    \/ \E e \in Troop : \E damage \in {0, dataSkills[2].damage} :
          executeHpDamage(e, 2, battlefield.threat, damage)
    \/ endTurn
    \/ \E arg \in CommandArgs : changeDifficulty(arg)
    \/ resetAIMemory

SpecMemory == InitMemory /\ [][NextMemory]_vars

---------------------------------------------------------------------------
(* One agent hitting the party's leader and deciding, encounter after      *)
(* encounter, under the default options.                                   *)

InitAdaptation ==
    /\ parameters = DefaultParameters
    /\ InitSystem
    /\ InitBattle

NextAdaptation ==
    \/ BattleManagerSetup
    \/ \E damage \in {0, dataSkills[2].damage} :
          executeHpDamage(0, 2, battlefield.threat, damage)
    \/ LedgerSize(teamDecisions) < MaxDecisions /\ selectAllActions(0)

SpecAdaptation == InitAdaptation /\ [][NextAdaptation]_vars

---------------------------------------------------------------------------
(* A battler gathering traits, its profile asked for now and then.         *)

InitTraits ==
    /\ parameters = DefaultParameters
    /\ InitSystem
    /\ InitBattle

NextTraits ==
    \/ AnalyzeBattler
    \/ \E trait \in TraitRecords : HostAddsTrait(trait)

SpecTraits == InitTraits /\ [][NextTraits]_vars

---------------------------------------------------------------------------
(* A skill's formula being written into the database, evaluated now and    *)
(* then for some attacker, target and variable table.                      *)

InitFormula ==
    /\ parameters = DefaultParameters
    /\ aiDifficultyMode = Undef
    /\ aiDebugMode = Undef
    /\ requestedMode = Undef
    /\ params = Undef
    /\ traitList = <<>>
    /\ analysis = Undef
    /\ formula \in {Undef, Num(0), Num(50), JsString(<<>>)}
    /\ evaluated = Undef
    /\ caches = Undef
    /\ analyzed = Undef
    /\ scoring = Undef
    /\ InitBattle

NextFormula ==
    \/ \E token \in FormulaTokens : HostWritesFormula(token)
    \/ \E a \in FormulaBattlers : \E b \in FormulaBattlers :
           \E v \in FormulaVariables : Evaluate(a, b, v)

SpecFormula == InitFormula /\ [][NextFormula]_vars

---------------------------------------------------------------------------
(* The agents of the troop deciding round after round under the default    *)
(* options, their skills running out one after another.                    *)

InitLedger ==
    /\ parameters = DefaultParameters
    /\ InitSystem
    /\ InitBattle

NextLedger ==
    \/ BattleManagerSetup
    \/ \E e \in Troop :
          LedgerSize(teamDecisions) <= MaxDecisions /\ selectAllActions(e)
    \/ endTurn
    \/ \E s \in 1..3 : HostChangesSkill(s, [status |-> "unusable", score |-> 0])

SpecLedger == InitLedger /\ [][NextLedger]_vars

---------------------------------------------------------------------------
(* The agents of the troop deciding, each call followed statement by       *)
(* statement; between two calls turns end, skills run out and the next     *)
(* encounter is set up.                                                    *)

InitScoring ==
    /\ parameters = DefaultParameters
    /\ InitSystem
    /\ InitBattle

NextScoring ==
    \/ scoring = Undef /\ BattleManagerSetup
    \/ scoring = Undef /\ endTurn
    \/ /\ scoring = Undef
       /\ \E s \in 1..3 : HostChangesSkill(s, [status |-> "unusable", score |-> 0])
    \/ \E e \in Troop : LedgerSize(teamDecisions) <= MaxDecisions /\ NewEngine(e)
    \/ BeginDecision
    \/ EnumerateActions
    \/ EvaluateNext
    \/ ChooseAction
    \/ InstallDecision

SpecScoring == InitScoring /\ [][NextScoring]_vars

\* A call under way runs to its end: the code is synchronous and returns
\* to the host only when selectAllActions has returned.
CallRuns ==
    /\ WF_vars(BeginDecision)
    /\ WF_vars(EnumerateActions)
    /\ WF_vars(EvaluateNext)
    /\ WF_vars(ChooseAction)
    /\ WF_vars(InstallDecision)

\* The calls of one encounter after another, no turn ending in between.
NextCall ==
    \/ scoring = Undef /\ BattleManagerSetup
    \/ /\ scoring = Undef
       /\ \E s \in 1..3 : HostChangesSkill(s, [status |-> "unusable", score |-> 0])
    \/ \E e \in Troop : LedgerSize(teamDecisions) <= MaxDecisions /\ NewEngine(e)
    \/ BeginDecision
    \/ EnumerateActions
    \/ EvaluateNext
    \/ ChooseAction
    \/ InstallDecision

SpecScoringLive == InitScoring /\ [][NextCall]_vars /\ CallRuns

---------------------------------------------------------------------------
(* One engine after another analysing the states on the battlers and the   *)
(* skills of the two sides, in ascending or in descending order of id, and *)
(* the combatants in their order.                                          *)

\* The id looked up after those of the cache: the first or the last of the
\* database to begin with, then the neighbour of the one before.
NextIds(cache) ==
    IF cache = <<>> THEN {1, MaxKeys}
    ELSE LET last == cache[Len(cache)]
         IN  (IF cache[1] = 1 THEN {last + 1} ELSE {last - 1}) \cap CacheKeys

InitCaches ==
    /\ parameters = DefaultParameters
    /\ InitSystem
    /\ InitBattle

NextCaches ==
    \/ ConstructEngine
    \/ StartDecision
    \/ /\ caches # Undef
       /\ \E id \in NextIds(caches.stateAnalysisCache) : getStateAnalysis(id)
    \/ /\ caches # Undef
       /\ \E id \in NextIds(caches.skillAnalysisCache) : getSkillAnalysis(id)
    \/ /\ caches # Undef
       /\ Len(caches.traitAnalysisCache) < Len(TraitKeys)
       /\ getTraitAnalysis(TraitKeys[Len(caches.traitAnalysisCache) + 1])

SpecCaches == InitCaches /\ [][NextCaches]_vars

---------------------------------------------------------------------------
(* An enemy made to use the sleep-inducing attack on the party, encounter  *)
(* after encounter, the difficulty changed in between.                     *)

InitDiscovery ==
    /\ parameters = DefaultParameters
    /\ InitSystem
    /\ InitBattle

NextDiscovery ==
    \/ BattleManagerSetup
    \/ \E target \in Party :
          executeHpDamage(0, 5, target, dataSkills[5].damage)
    \/ \E arg \in {Num(0), Num(2)} : changeDifficulty(arg)
    \/ \E ps \in {p \in PartyStates : p.alive = Party} : HostChangesParty(ps)

SpecDiscovery == InitDiscovery /\ [][NextDiscovery]_vars

---------------------------------------------------------------------------
(* An enemy's hits on the party, encounter after encounter: hits           *)
(* that wound, hits that do nothing, hits that kill outright and hits of   *)
(* an element the target absorbs, which heal it.                           *)

HitValues == {-20, 0, 20, 150}

InitHits ==
    /\ parameters = DefaultParameters
    /\ InitSystem
    /\ InitBattle

NextHits ==
    \/ BattleManagerSetup
    \/ \E target \in Party : \E value \in HitValues :
          executeHpDamage(0, 2, target, value)

\* The battles go on: encounters keep starting and hits keep landing.
SpecHits ==
    /\ InitHits
    /\ [][NextHits]_vars
    /\ WF_vars(BattleManagerSetup)
    /\ WF_vars(\E target \in Party : \E value \in HitValues :
                   executeHpDamage(0, 2, target, value))

---------------------------------------------------------------------------
(* The State Analyzer, src lines 1018-1128.                                *)
(* A state of $dataStates is a record of its restriction, its traits (each *)
(* value in hundredths), the category tags its note holds, its             *)
(* autoRemovalTiming and its minTurns and maxTurns; the target is a record *)
(* of its mhp and of target._stateTurns[state.id].  Turns are counted in   *)
(* halves and values in hundredths, so that every quotient is exact.       *)

\* The traits a state carries, and the turns its counter runs to.
MaxStateTraits == 2
MaxStateTurns == 7

\* HP regeneration below and above zero, a parameter rate below and above
\* one.
StateTraits ==
    {[code |-> 22, dataId |-> 0, value |-> -10],
     [code |-> 22, dataId |-> 0, value |-> 10],
     [code |-> 21, dataId |-> 2, value |-> 50],
     [code |-> 21, dataId |-> 2, value |-> 120]}

\* The tags <category: disable>, <category: dot>, <category: debuff>.
NoteTags == {"disable", "dot", "debuff"}

\* minTurns and maxTurns as the database pairs them.
TurnRanges == {<<0, 0>>, <<1, 2>>, <<3, 8>>}

TraitLists == UNION {[1..n -> StateTraits] : n \in 0..MaxStateTraits}

DataStates ==
    {Undef} \cup
    {[restriction |-> r, traits |-> t, note |-> n, autoRemovalTiming |-> a,
      minTurns |-> range[1], maxTurns |-> range[2]] :
        r \in 0..4, t \in TraitLists, n \in SUBSET NoteTags, a \in 0..2,
        range \in TurnRanges}

StateTargets ==
    {[mhp |-> TargetMhp, stateTurns |-> c] : c \in 0..MaxStateTurns}

\* The first trait of the list, from position i on, that is a negative HP
\* regeneration; 0 when there is none.
RECURSIVE FirstSlipTrait(_, _)
FirstSlipTrait(traits, i) ==
    IF i > Len(traits) THEN 0
    ELSE IF /\ traits[i].code = 22
            /\ traits[i].dataId = 0
            /\ traits[i].value < 0
         THEN i
         ELSE FirstSlipTrait(traits, i + 1)

\* The loop of lines 1043-1048.
RECURSIVE hasDebuff(_, _)
hasDebuff(traits, i) ==
    IF i > Len(traits) THEN FALSE
    ELSE IF traits[i].code = 21 /\ traits[i].value < 100 THEN TRUE
         ELSE hasDebuff(traits, i + 1)

\* StateAnalyzer.categorizeState(state)
categorizeState(state) ==
    IF state = Undef THEN "other"
    ELSE IF state.restriction >= 4 THEN "disable_full"
    ELSE IF state.restriction >= 2 THEN "disable_partial"
    ELSE IF FirstSlipTrait(state.traits, 1) # 0 THEN "damage_over_time"
    ELSE IF hasDebuff(state.traits, 1) THEN "debuff"
    ELSE IF "disable" \in state.note THEN "disable_full"
    ELSE IF "dot" \in state.note THEN "damage_over_time"
    ELSE IF "debuff" \in state.note THEN "debuff"
    ELSE "other"

\* StateAnalyzer.calculateSlipDamage(state, target), in hundredths of a hit
\* point.
calculateSlipDamage(state, target) ==
    IF state = Undef \/ target = Undef THEN 0
    ELSE LET i == FirstSlipTrait(state.traits, 1)
         IN  IF i = 0 THEN 0 ELSE target.mhp * Abs(state.traits[i].value)

\* StateAnalyzer.estimateRemainingTurns(state, target), in half turns.
estimateRemainingTurns(state, target) ==
    IF state = Undef \/ target = Undef THEN 0
    ELSE LET stateCounter == target.stateTurns
             floorAt(x, low) == IF x < low THEN low ELSE x
         IN  IF state.autoRemovalTiming = 1
             THEN 2 * floorAt(stateCounter - 1, 0)
             ELSE IF state.autoRemovalTiming = 2
             THEN 2 * floorAt(stateCounter, 0)
             ELSE IF state.minTurns = 0 /\ state.maxTurns = 0
             THEN 2 * 999
             ELSE floorAt(state.minTurns + state.maxTurns - 2 * stateCounter,
                          2)

\* The value of the switch of lines 1065-1082, in hundredths.
CategoryValue(state, target) ==
    LET category == categorizeState(state)
    IN  CASE category = "disable_full" -> 100 * 100
          [] category = "disable_partial" -> 60 * 100
          [] category = "damage_over_time" ->
                (calculateSlipDamage(state, target) * 50) \div target.mhp
          [] category = "debuff" -> 40 * 100
          [] OTHER -> 20 * 100

\* StateAnalyzer.getStateValue(state, target), in hundredths, its scaling
\* left without the cap of 5 turns.
getStateValue_Uncapped(state, target) ==
    IF state = Undef \/ target = Undef THEN 0
    ELSE (CategoryValue(state, target)
            * estimateRemainingTurns(state, target)) \div 10

\* StateAnalyzer.getStateValue(state, target), in hundredths.
getStateValue(state, target) ==
    IF state = Undef \/ target = Undef THEN 0
    ELSE LET remainingTurns == estimateRemainingTurns(state, target)
             capped == IF remainingTurns < 10 THEN remainingTurns ELSE 10
         IN  (CategoryValue(state, target) * capped) \div 10

analyzerUnchanged ==
    <<optionVars, traitVars, formulaVars, caches, scoring, battleVars>>

\* A caller asks for the category of the state.
CallCategorizeState ==
    /\ analyzed.category = Undef
    /\ analyzed' = [analyzed EXCEPT
                       !.category = JsString(categorizeState(analyzed.state))]
    /\ UNCHANGED analyzerUnchanged

\* A caller asks for the value of the state on the target.
CallGetStateValue ==
    /\ analyzed.value = Undef
    /\ analyzed' = [analyzed EXCEPT
                       !.value = Num(getStateValue(analyzed.state,
                                                   analyzed.target))]
    /\ UNCHANGED analyzerUnchanged

\* Any state of the database on a target that has carried it for any number
\* of turns.
InitStates ==
    /\ parameters = DefaultParameters
    /\ aiDifficultyMode = Undef
    /\ aiDebugMode = Undef
    /\ requestedMode = Undef
    /\ params = Undef
    /\ traitList = <<>>
    /\ analysis = Undef
    /\ formula = Undef
    /\ evaluated = Undef
    /\ caches = Undef
    /\ scoring = Undef
    /\ InitBattle
    /\ \E state \in DataStates : \E target \in StateTargets :
          analyzed = [state |-> state, target |-> target,
                      category |-> Undef, value |-> Undef]

NextStates ==
    \/ CallCategorizeState
    \/ CallGetStateValue

SpecStates == InitStates /\ [][NextStates]_vars

---------------------------------------------------------------------------
(* Properties of the decision and of its installation.                     *)

\* The last call reached a decision.
Decided == call.decision # NoDecision

\* The evaluations the last call's engine sorted.
CallEvaluations == SortedEvaluations(battlefield, call.enemy)

ScoreOf(s) == evaluateAction(battlefield, call.enemy, s).totalScore

\* C1: a call in which the engine raises, at whatever step, ends with the
\* host's own selectAllActions having filled the queue; nothing reaches
\* the caller.
C1_FailureCaught ==
    call.failAt # "none" =>
        /\ call.outcome = "default"
        /\ actionQueue[call.enemy] # <<>>
        /\ \A i \in DOMAIN actionQueue[call.enemy] :
               actionQueue[call.enemy][i].by = "host"

C1_Witness ==
    /\ call.failAt = "verify"
    /\ call.outcome = "default"
    /\ call.decision.path = "best"

\* C2: when no evaluated action scores positive, the decision is one of
\* the usable non-basic skills if there is one, and the basic attack
\* against one living party member only if there is none.
UsableNonBasic ==
    {a \in SeqToSet(getAllAvailableActions(battlefield)) : a # AttackSkillId}

NoPositiveScore ==
    /\ getAllAvailableActions(battlefield) # <<>>
    /\ \A i \in DOMAIN CallEvaluations : CallEvaluations[i].totalScore <= 0

C2_FallbackIsUsableSkill ==
    (Decided /\ NoPositiveScore) =>
        /\ call.decision.targets # <<>>
        /\ IF UsableNonBasic # {}
           THEN call.decision.skillId \in UsableNonBasic
           ELSE /\ call.decision.skillId = AttackSkillId
                /\ Len(call.decision.targets) = 1
                /\ call.decision.targets[1] \in battlefield.alive

\* C3: an accepted decision leaves the install loop and at least one
\* action carrying the decided skill in the enemy's queue.
C3_AcceptedDecisionInstalled ==
    call.outcome \in {"installed", "hang"} =>
        /\ call.outcome = "installed"
        /\ \E i \in DOMAIN actionQueue[call.enemy] :
               /\ actionQueue[call.enemy][i].by = "engine"
               /\ actionQueue[call.enemy][i].skillId = call.decision.skillId

\* C4: with no legal action the decision is the basic attack on exactly
\* one living member of the party.
C4_NoLegalActionDefault ==
    (Decided /\ getAllAvailableActions(battlefield) = <<>>) =>
        /\ call.decision.skillId = AttackSkillId
        /\ Len(call.decision.targets) = 1
        /\ call.decision.targets[1] \in battlefield.alive

C4_Witness ==
    /\ call.decision.path = "noActions"
    /\ battlefield.alive = {"A"}
    /\ call.decision.targets = <<"A">>

\* C5: a damaging action whose only valid target sleeps (a full-disable
\* condition worth more than 50) is not the decision when a non-damaging
\* action scores positive and at least 80% of its total score.
C5_PreservedWhenAlternative ==
    Decided =>
        \A i \in DOMAIN CallEvaluations :
            LET ev == CallEvaluations[i]
            IN  (/\ ev.isDamage
                 /\ battlefield.alive = SeqToSet(ev.targets)
                 /\ Len(ev.targets) = 1
                 /\ ev.targets[1] \in battlefield.asleep
                 /\ SleepValue > 50
                 /\ \E j \in DOMAIN CallEvaluations :
                        /\ ~CallEvaluations[j].isDamage
                        /\ CallEvaluations[j].totalScore > 0
                        /\ 100 * CallEvaluations[j].totalScore
                               >= 80 * ev.totalScore)
                => call.decision.skillId # ev.skillId

\* How many evaluated actions score strictly more than skill s.
Outscoring(s) ==
    Cardinality({i \in DOMAIN CallEvaluations :
                    CallEvaluations[i].totalScore > ScoreOf(s)})

LowestProfileAlwaysMistaken ==
    /\ Decided
    /\ getPluginParams.difficultyMode = 0
    /\ call.behavior.mistakeChance = 100
    /\ Len(getAllAvailableActions(battlefield)) > 3

\* C6 as claimed: under the lowest profile with mistake chance 1.0 and
\* more than 3 legal actions, every decision is one of the three
\* highest-scored evaluated actions.
C6_MistakeWithinTopThree ==
    LowestProfileAlwaysMistaken => Outscoring(call.decision.skillId) < 3

\* C6 as amended: that holds whenever some evaluated action scores
\* positive, but for the non-damaging alternative the condition
\* preservation check has put first.
PromotedAlternative ==
    LET promoted == PromoteAlternative(CallEvaluations,
                                       getPluginParams.debugMode)
    IN  IF Len(promoted) > Len(CallEvaluations) THEN {promoted[1].skillId}
        ELSE {}

C6_MistakeWithinTopThreeIfPositive ==
    (/\ LowestProfileAlwaysMistaken
     /\ \E i \in DOMAIN CallEvaluations : CallEvaluations[i].totalScore > 0)
    => \/ Outscoring(call.decision.skillId) < 3
       \/ call.decision.skillId \in PromotedAlternative

C6_Witness ==
    /\ LowestProfileAlwaysMistaken
    /\ call.decision.path = "mistake"
    /\ Outscoring(call.decision.skillId) = 2
    /\ \E s \in 1..4 : ScoreOf(s) < ScoreOf(call.decision.skillId)

\* C7: an evaluated action with no target, whose scope is neither self nor
\* none, scores -1 and is never the decision.
C7_NoTargetActionNeverReturned ==
    Decided =>
        \A i \in DOMAIN CallEvaluations :
            LET ev == CallEvaluations[i]
                type == analyzeSkillScope(dataSkills[ev.skillId].scope).type
            IN  (ev.targets = <<>> /\ type \notin {"self", "none"})
                => /\ ev.totalScore = -1
                   /\ call.decision.skillId # ev.skillId

---------------------------------------------------------------------------
(* Properties of the difficulty command, the options and the memories.     *)

\* C8: a changeDifficulty command with a mode in 0..2 is the mode in force
\* from then on, any other command changes nothing, and every decision
\* of any agent is taken with the profile of the last mode so requested,
\* whether or not an encounter was set up in between.
C8_NextDecisionUsesRequestedProfile ==
    [][/\ aiDifficultyMode' = requestedMode'
       /\ (\E e \in Troop : selectAllActions(e) /\ ~call'.confused)
            => call'.behavior =
                  behaviors[IF requestedMode = Undef THEN 1
                            ELSE requestedMode.v]]_vars

C8_Witness ==
    /\ requestedMode = Num(2)
    /\ call.enemy = 1
    /\ call.behavior = behaviors[2]
    /\ call.behavior.perfectPrediction
    /\ LedgerSize(teamDecisions) = 1

\* C9: a read of the options gives, for every option with a documented
\* range, the configured value when that value lies in the range, 0
\* included (the difficulty mode as long as no command has overridden it).
C9_ConfiguredValueReported ==
    params # Undef =>
        \A opt \in RangedOptions :
            LET raw == parameters[opt]
            IN  (/\ raw.t = "num"
                 /\ raw.v \in DocumentedRange(opt)
                 /\ opt = "difficultyMode" => aiDifficultyMode = Undef)
                => params[opt] = raw.v

\* The persistence flag as documented: off in Story Mode, the
\* persistentMemory option in Adaptive Mode, on in Masochist Mode.
DocumentedPersistence ==
    CASE getPluginParams.difficultyMode = 0 -> FALSE
      [] getPluginParams.difficultyMode = 2 -> TRUE
      [] OTHER -> parameters["persistentMemory"] = BoolText(TRUE)

\* A Memory kept whole: every counter and every discovery it held is still
\* there, unchanged.
MemoryKept(before, after) ==
    /\ after.skillHistory = before.skillHistory
    /\ after.turnCount = before.turnCount
    /\ \A k \in ElementKeys :
          before.elementalData[k] # Undef
              => after.elementalData[k] = before.elementalData[k]

\* C10: setup leaves every agent an empty Memory when the persistence flag
\* is off, and keeps whole the Memory it finds when the flag is on.
C10_SetupKeepsOrEmptiesMemory ==
    [][BattleManagerSetup =>
          \A i \in Troop :
              IF DocumentedPersistence
              THEN enemyAIMemory[i] # Undef
                      => MemoryKept(enemyAIMemory[i], enemyAIMemory'[i])
              ELSE enemyAIMemory'[i] = EmptyMemory]_vars

---------------------------------------------------------------------------
(* Properties of the Memory's counters and of the historical modifier.     *)

\* The Memory an engine built for enemy e finds in the table.
EngineMemory(memoryTable, e) == getBattleMemory(memoryTable, e)[e]

\* C11: right after resetAIMemory no agent has a Memory left, so the
\* engine built next finds every counter empty and answers 1.0 for every
\* skill, under every profile.
C11_ResetGivesNeutralHistory ==
    [][resetAIMemory =>
          \A e \in Troop :
              /\ EngineMemory(enemyAIMemory', e) = EmptyMemory
              /\ \A s \in DOMAIN dataSkills : \A m \in DOMAIN behaviors :
                    getHistoricalModifier(EngineMemory(enemyAIMemory', e), s,
                                          behaviors[m]) = One]_vars

C11_Witness ==
    /\ battlefield # NoBattle
    /\ enemyAIMemory = [e \in Troop |-> Undef]
    /\ aiDifficultyMode = Num(2)

\* C12: the historical modifier of every skill is 1.0 below 3 recorded
\* uses, is 1 + learningRate * (successRate - 0.5) clamped to [0.5, 1.5]
\* from 3 uses on, and always lies in [0.5, 1.5].
C12_HistoricalModifierBounded ==
    \A e \in Troop : \A s \in DOMAIN dataSkills : \A m \in DOMAIN behaviors :
        enemyAIMemory[e] # Undef =>
            LET history == enemyAIMemory[e].skillHistory[s]
                modifier == getHistoricalModifier(enemyAIMemory[e], s,
                                                  behaviors[m])
            IN  /\ history.uses < 3 => RatioEq(modifier, One)
                /\ history.uses >= 3 =>
                      RatioEq(modifier,
                          Clamp(Ratio(1, 2), Ratio(3, 2),
                              Ratio(100 * history.uses
                                      + behaviors[m].learningRate
                                          * history.successes
                                      - (behaviors[m].learningRate
                                          * history.uses) \div 2,
                                    100 * history.uses)))
                /\ RatioLeq(Ratio(1, 2), modifier)
                /\ RatioLeq(modifier, Ratio(3, 2))

C12_Witness ==
    \E e \in Troop :
        /\ enemyAIMemory[e] # Undef
        /\ enemyAIMemory[e].skillHistory[2] = [uses |-> 3, successes |-> 0]
        /\ RatioEq(getHistoricalModifier(enemyAIMemory[e], 2, behaviors[2]),
                   Ratio(3, 4))

\* C13: the Strategic Adaptation State a decision of an agent works with
\* holds the patterns of every outcome recorded for that agent since the
\* encounter began, and its stalemate flag is the one those outcomes give.
C13_DecisionSeesAccumulatedAdaptation ==
    [][\A e \in Troop :
          (selectAllActions(e) /\ call'.adaptation # Undef) =>
              /\ call'.adaptation.combatPatterns = tracked[e].combatPatterns
              /\ inStalemate(call'.adaptation) = inStalemate(tracked[e])]_vars

---------------------------------------------------------------------------
(* Properties of the Capability Profile.                                   *)

\* The traits in another order.
Reordered(traits, p) == [i \in DOMAIN traits |-> traits[p[i]]]

\* C14: the profile analyzeBattler returns is the one it returns for every
\* permutation of the battler's trait list.
C14_AnalysisOrderIndependent ==
    analysis # Undef =>
        \A p \in Permutations(DOMAIN traitList) :
            analyzeBattler(Reordered(traitList, p)) = analysis

RECURSIVE ProductOf(_, _, _)
ProductOf(traits, code, d) ==
    IF traits = <<>> THEN 1
    ELSE (IF Head(traits).code = code /\ Head(traits).dataId = d
          THEN Head(traits).value ELSE 1) * ProductOf(Tail(traits), code, d)

RECURSIVE SumOf(_, _, _)
SumOf(traits, code, d) ==
    IF traits = <<>> THEN 0
    ELSE (IF Head(traits).code = code /\ Head(traits).dataId = d
          THEN Head(traits).value ELSE 0) + SumOf(Tail(traits), code, d)

\* A profile field as its readers take it: a rate never recorded reads as
\* the identity.
FieldValue(field, identity) == IF field = Undef THEN identity ELSE field.v

\* C15: every multiplicative field of the profile is the product, and
\* every additive field the sum, of the values of the subject's traits;
\* without a trait it is 1, respectively 0.
C15_FieldsAreProductsAndSums ==
    analysis # Undef =>
        \A d \in TraitSubjects :
            /\ FieldValue(analysis.elementRates[d], 1)
                  = ProductOf(traitList, 11, d)
            /\ FieldValue(analysis.params[d], 1) = ProductOf(traitList, 21, d)
            /\ FieldValue(analysis.exParams[d], 0) = SumOf(traitList, 22, d)

---------------------------------------------------------------------------
(* Properties of the formula evaluator.                                    *)

\* The formula is missing or no string, its text does not run, or what it
\* gives is no number.
FormulaGivesNoNumber(f, a, b, v) ==
    \/ f.t # "string"
    \/ f.v = <<>>
    \/ Run([i \in DOMAIN f.v |-> Substitute(f.v[i], context(a, b, v))]).t # "num"

\* C16: SafeFormulaEvaluator.evaluate returns a number for every formula,
\* attacker, target and variable table, and that number is the default 100
\* whenever the formula is missing, is not a string, is malformed, fails
\* when evaluated or evaluates to something that is not a number.
C16_EvaluateReturnsNumber ==
    evaluated # Undef =>
        /\ evaluated.result.t = "num"
        /\ FormulaGivesNoNumber(formula, evaluated.a, evaluated.b, evaluated.v)
               => evaluated.result = Num(FallbackDamage)

---------------------------------------------------------------------------
(* Properties of the Ledger.                                               *)

\* C17: every decision makeDecision returns, on whichever return path (best
\* score, mistake pick, fallback skill, default attack), has been written
\* to the Ledger exactly once: a call that returned a decision with a target
\* leaves the Ledger with exactly one more targeting entry than before.
C17_EveryDecisionRegistered ==
    [][\A e \in Troop :
          (/\ selectAllActions(e)
           /\ call'.decision # NoDecision
           /\ Len(call'.decision.targets) > 0)
          => LedgerSize(teamDecisions') = LedgerSize(teamDecisions) + 1]_vars

\* The assignments of the ledger before are all in the ledger after.
LedgerGrows(before, after) ==
    /\ before.healingAssigned \subseteq after.healingAssigned
    /\ \A k \in LedgerKeys :
          /\ before.expectedDamage[k] <= after.expectedDamage[k]
          /\ Len(before.targetAssignments[k]) <= Len(after.targetAssignments[k])
          /\ SubSeq(after.targetAssignments[k], 1,
                    Len(before.targetAssignments[k]))
                 = before.targetAssignments[k]

\* C18: the Ledger is empty right after BattleManager.setup, and every
\* other step of the encounter (a decision, a turn end, a change the host
\* makes) leaves each target's healer-assigned flag set if it was set, its
\* expected damage no smaller and its list of targeting agents extended at
\* the end only; endTurn leaves the Ledger as it is.
C18_LedgerOnlyGrows ==
    [][/\ teamDecisions' = EmptyTeamDecisions \/ ~BattleManagerSetup
       /\ LedgerGrows(teamDecisions, teamDecisions') \/ BattleManagerSetup
       /\ endTurn => teamDecisions' = teamDecisions]_vars

\* Two decisions are registered and a turn of the encounter has ended.
C18_Witness ==
    /\ LedgerSize(teamDecisions) >= 2
    /\ \E k \in LedgerKeys : teamDecisions.expectedDamage[k] > 0
    /\ \E e \in Troop :
          enemyAIMemory[e] # Undef /\ enemyAIMemory[e].turnCount > 0

\* C19: a call of selectAllActions that ends by handing over to the host's
\* own selection (something failed, or the decision was rejected) has
\* discarded its partial work: the Ledger is as it was before the call and
\* the enemy's queue holds nothing but what the host's selection put there.
C19_DefaultDiscardsPartialWork ==
    [][\A e \in Troop :
          (selectAllActions(e) /\ call'.outcome = "default")
          => /\ teamDecisions' = teamDecisions
             /\ \A i \in DOMAIN actionQueue'[e] :
                   actionQueue'[e][i] = HostAction]_vars

---------------------------------------------------------------------------
(* Properties of the decision's course.                                    *)

\* The steps a call may take from one position to the next.
InOrder(before, after) ==
    \/ before = Undef /\ after.phase = "constructed"
    \/ /\ before # Undef /\ after # Undef
       /\ \/ /\ before.phase = "constructed" /\ after.phase = "analyzed"
             /\ after.battleState # Undef
          \/ before.phase = "analyzed" /\ after.phase = "scoring"
                /\ after.evaluations = <<>>
          \/ /\ before.phase = "scoring" /\ after.phase = "scoring"
             /\ Len(after.evaluations) = Len(before.evaluations) + 1
             /\ Len(after.evaluations) <= Len(after.actions)
             /\ after.actions = before.actions
          \/ /\ before.phase = "scoring" /\ after.phase = "returned"
             /\ Len(before.evaluations) = Len(before.actions)
             /\ after.decision # NoDecision
             /\ after.decision.skillId \in Nat
    \/ before # Undef /\ before.phase = "returned" /\ after = Undef

---------------------------------------------------------------------------
(* Properties of the analysis caches.                                      *)

CacheNames == {"stateAnalysisCache", "skillAnalysisCache", "traitAnalysisCache"}

\* C22: each of the engine's three caches holds at most maxCacheSize (20)
\* entries at every point of a decision, and a step that evicts entries
\* leaves the ones inserted last.
C22_CachesCappedOldestEvicted ==
    /\ [](caches # Undef =>
              \A c \in CacheNames : Len(caches[c]) <= maxCacheSize)
    /\ [][(caches # Undef /\ caches' # Undef) =>
              \A c \in CacheNames :
                  Len(caches'[c]) < Len(caches[c]) /\ caches'[c] # <<>>
                  => caches'[c] = SubSeq(caches[c],
                                         Len(caches[c]) - maxCacheSize + 1,
                                         Len(caches[c]))]_vars

---------------------------------------------------------------------------
(* Properties of what the hits teach.                                      *)

\* C23: a hit of the sleep-inducing elemental attack on a target records the
\* target's elemental rate and the state-resistance observation in the
\* attacker's Memory at once; under a profile that shares knowledge both
\* discoveries are then in the shared pool, and under any other profile the
\* pool is left as it was.
C23_DiscoveriesRecordedAndShared ==
    [][\A e \in Troop : \A target \in Party :
          executeHpDamage(e, 5, target, dataSkills[5].damage)
          => /\ enemyAIMemory'[e].elementalData[target] # Undef
             /\ enemyAIMemory'[e].elementalData[target].rate
                    = ElementRate(target)
             /\ enemyAIMemory'[e].stateResistance[target] # Undef
             /\ IF EngineBehavior.sharedKnowledge
                THEN /\ globalAIMemory'.knownWeaknesses[target] # Undef
                     /\ globalAIMemory'.knownResistances[target] # Undef
                ELSE globalAIMemory' = globalAIMemory]_vars

\* C24: under the top profile, when BattleManager.setup has loaded the pool
\* into the Memories, getElementRate answers, for every target whose rate
\* the pool knows, with the rate the pool holds.
C24_PooledRateReturnedNextEncounter ==
    [][(BattleManagerSetup /\ getPluginParams.difficultyMode = 2)
       => \A e \in Troop : \A target \in Party :
             globalAIMemory.knownWeaknesses[target] # Undef
             => getElementRate(enemyAIMemory'[e], target)
                    = globalAIMemory.knownWeaknesses[target]]_vars

---------------------------------------------------------------------------
(* Properties of the debug toggle and of the healing tally.                *)

\* C25: whatever the battlefield and the profile, makeDecision with
\* debugMode on can return exactly the decisions it can return with
\* debugMode off (the random draws ranging over the same values).
C25_DebugModeDoesNotSteer ==
    battlefield # NoBattle
    => \A e \in Troop :
          makeDecision(battlefield, e, EngineBehavior, TRUE)
              = makeDecision(battlefield, e, EngineBehavior, FALSE)

\* A hit has been tallied as negated by healing.
HealingTallied ==
    \E e \in Troop : \E m \in Party :
        tracked[e].combatPatterns[m].healingReceived > 0

\* C26: the damage-negated-by-healing tally of a target becomes non-zero:
\* as the hits keep landing, one of them is passed on with wasHealed = true.
C26_HealingGetsTallied == <>HealingTallied

---------------------------------------------------------------------------
(* Properties of the ledger's target lists and of the turn counter.        *)

\* C27: within one encounter the ledger's list of agents targeting a target
\* holds each agent at most once, however many decisions and rounds the
\* agent has chosen that target.
C27_EachAgentListedOnce ==
    \A k \in LedgerKeys :
        \A i \in DOMAIN teamDecisions.targetAssignments[k] :
            \A j \in DOMAIN teamDecisions.targetAssignments[k] :
                teamDecisions.targetAssignments[k][i]
                    = teamDecisions.targetAssignments[k][j] => i = j

\* C28: every encounter starts with each agent's turn counter at 0, under
\* every difficulty profile, and each endTurn of the encounter adds exactly
\* 1 to it.
C28_TurnCounterFromZero ==
    [][/\ BattleManagerSetup =>
              \A e \in Troop : enemyAIMemory'[e].turnCount = 0
       /\ endTurn =>
              \A e \in Troop :
                  enemyAIMemory[e] # Undef =>
                      enemyAIMemory'[e].turnCount
                          = enemyAIMemory[e].turnCount + 1]_vars

---------------------------------------------------------------------------
(* Properties of the State Analyzer.                                       *)

\* The category the traits and the restriction of a state stand for.
InferredCategory(state) ==
    IF state.restriction >= 4 THEN "disable_full"
    ELSE IF state.restriction >= 2 THEN "disable_partial"
    ELSE IF \E i \in DOMAIN state.traits :
               /\ state.traits[i].code = 22
               /\ state.traits[i].dataId = 0
               /\ state.traits[i].value < 0
         THEN "damage_over_time"
    ELSE IF \E i \in DOMAIN state.traits :
               state.traits[i].code = 21 /\ state.traits[i].value < 100
         THEN "debuff"
    ELSE "other"

\* The categories the tags of a state's note name.
TaggedCategories(state) ==
    {IF tag = "disable" THEN "disable_full"
     ELSE IF tag = "dot" THEN "damage_over_time"
     ELSE "debuff" : tag \in state.note}

\* C29: categorizeState returns disable_full for restriction >= 4,
\* disable_partial for restriction >= 2, else damage_over_time for a
\* negative periodic-damage trait, else debuff for a parameter rate below
\* 1.0, else other; and a state whose note carries a category tag gets the
\* tag's category instead of the inferred one.
C29_CategoryInferredUnlessTagged ==
    (analyzed # Undef /\ analyzed.category # Undef /\ analyzed.state # Undef)
    => IF analyzed.state.note = {}
       THEN analyzed.category.v = InferredCategory(analyzed.state)
       ELSE analyzed.category.v \in TaggedCategories(analyzed.state)

\* C30: getStateValue is the category's weight (100, 60, 40, 20, and for
\* damage over time the periodic damage over mhp times 50) times
\* min(estimated remaining turns, 5) / 5: it is the same for every estimate
\* of 5 turns or more, never above the weight, and 0 when the estimate is 0.
C30_ValueIsWeightTimesCappedTurns ==
    (analyzed # Undef /\ analyzed.value # Undef /\ analyzed.state # Undef)
    => LET state == analyzed.state
           target == analyzed.target
           category == categorizeState(state)
           weight ==
               CASE category = "disable_full" -> 10000
                 [] category = "disable_partial" -> 6000
                 [] category = "debuff" -> 4000
                 [] category = "other" -> 2000
                 [] category = "damage_over_time" ->
                       (calculateSlipDamage(state, target) * 50)
                           \div target.mhp
           halfTurns == estimateRemainingTurns(state, target)
           value == analyzed.value.v
       IN  /\ 10 * value = weight * (IF halfTurns < 10 THEN halfTurns ELSE 10)
           /\ value <= weight
           /\ halfTurns = 0 => value = 0
           /\ \A other \in StateTargets :
                 (halfTurns >= 10
                    /\ estimateRemainingTurns(state, other) >= 10)
                 => getStateValue(state, other) = value

C30_Witness ==
    /\ analyzed # Undef
    /\ analyzed.value = Num(10000)
    /\ analyzed.state # Undef
    /\ categorizeState(analyzed.state) = "disable_full"
    /\ estimateRemainingTurns(analyzed.state, analyzed.target) > 10

====
